---- MODULE Spec2Model ----
(***************************************************************************)
(* Property-level computation graph of krysko/whatif: the working graph    *)
(* of ComputationGraphExecutor (a networkx DiGraph whose vertices carry    *)
(* attribute bags), its execution order, per-node evaluation, snapshot /   *)
(* restore, and WhatIfSimulator.run_scenario.                              *)
(*                                                                         *)
(* Node ids are integers (compared like the strings of the program);       *)
(* attribute bags are functions from attribute names to values; values     *)
(* are naturals, False/True are 0/1 as in Python, None is the value None.  *)
(* The code of a computation node is the index of its expression in        *)
(* CodeText, its name is its id and its engine the index of the enum       *)
(* member, so that every attribute value is a number.                      *)
(***************************************************************************)
EXTENDS Integers, Sequences, FiniteSets, TLC

VARIABLES graph, node_data_map, G, snapshot, ret, steps, built, calls, other

vars == <<graph, node_data_map, G, snapshot, ret, steps, built, calls, other>>

(***************************************************************************)
(* Bounds of the model.                                                    *)
(***************************************************************************)
MaxOrderRels == 3
MaxRels == 2
MaxValue == 3
MaxSteps == 2
MaxOverrides == 1
MaxChainRels == 4
MaxDataOverrides == 2
MaxGraphs == 4
MaxQueryRels == 2

(***************************************************************************)
(* Universe of ids, property names and values.                             *)
(***************************************************************************)
CompIds == {1, 3}
DataIds == {2}
UnknownIds == {4}
NodeIds == CompIds \cup DataIds
RelProps == {"p", "q"}
BookkeepingKeys == {"is_computation", "priority"}
Priorities == {0, 1}
None == -1

(***************************************************************************)
(* Python dict operations on attribute bags.                               *)
(***************************************************************************)
EmptyBag == [k \in {} |-> None]

BagGet(b, k) == IF k \in DOMAIN b THEN b[k] ELSE None

BagSet(b, k, v) == [x \in (DOMAIN b) \cup {k} |-> IF x = k THEN v ELSE b[x]]

BagUpdate(b, u) == [x \in (DOMAIN b) \cup (DOMAIN u) |-> IF x \in DOMAIN u THEN u[x] ELSE b[x]]

BagWithout(b, k) == [x \in (DOMAIN b) \ {k} |-> b[x]]

Truthy(v) == v # None /\ v # 0

IsComputation(bag) == Truthy(BagGet(bag, "is_computation"))

RECURSIVE SetToSeq(_)
SetToSeq(S) ==
    IF S = {} THEN <<>>
    ELSE LET x == CHOOSE x \in S : TRUE IN <<x>> \o SetToSeq(S \ {x})

(***************************************************************************)
(* ComputationGraph values the executor is built from: relationships are   *)
(* DEPENDS_ON into a computation node or OUTPUT_TO out of one.             *)
(***************************************************************************)
RelAlphabet ==
    {r \in [source_id : NodeIds, target_id : NodeIds,
            relation_type : {"DEPENDS_ON", "OUTPUT_TO"}, property_name : RelProps] :
        /\ (r.relation_type = "DEPENDS_ON" => r.target_id \in CompIds)
        /\ (r.relation_type = "OUTPUT_TO" => r.source_id \in CompIds)}

SeqsUpTo(S, n) == UNION {[1..k -> S] : k \in 0..n}

(***************************************************************************)
(* ComputationGraphExecutor._build_networkx_graph: a DiGraph keeps one     *)
(* edge per (source, target), so a later relationship on the same pair     *)
(* replaces the attributes of the edge; add_edge creates missing vertices  *)
(* with an empty bag.                                                      *)
(***************************************************************************)
build_networkx_graph(g, ndm) ==
    LET rels == g.computation_relationships
        comps == g.computation_nodes
        ids == (DOMAIN ndm) \cup (DOMAIN comps)
               \cup {rels[i].source_id : i \in DOMAIN rels}
               \cup {rels[i].target_id : i \in DOMAIN rels}
        dataBag(n) == IF n \in DOMAIN ndm
                      THEN BagUpdate(ndm[n], [is_computation |-> 0, priority |-> 0])
                      ELSE EmptyBag
        compBag(n) == [name |-> n, code |-> comps[n].code, engine |-> 1,
                       is_computation |-> 1, priority |-> comps[n].priority]
        pairs == {<<rels[i].source_id, rels[i].target_id>> : i \in DOMAIN rels}
        last(e) == CHOOSE i \in DOMAIN rels :
                      /\ <<rels[i].source_id, rels[i].target_id>> = e
                      /\ \A j \in DOMAIN rels :
                            <<rels[j].source_id, rels[j].target_id>> = e => j <= i
    IN [nodes |-> [n \in ids |-> IF n \in DOMAIN comps
                                 THEN BagUpdate(dataBag(n), compBag(n))
                                 ELSE dataBag(n)],
        edges |-> [e \in pairs |-> [relation_type |-> rels[last(e)].relation_type,
                                    property_name |-> rels[last(e)].property_name]]]

(***************************************************************************)
(* ComputationGraphExecutor._get_dependency_graph: the DEPENDS_ON edges of *)
(* the working graph, plus writer -> reader edges from the relationship    *)
(* list.  get_dependency_graph_all_edges is the variant that keeps every    *)
(* edge of the working graph, the OUTPUT_TO edges included, and            *)
(* get_dependency_graph_depends_only the one without the writer -> reader  *)
(* edges.                                                                  *)
(***************************************************************************)
get_dependency_graph_depends_only(g, W) ==
    [nodes |-> DOMAIN W.nodes,
     edges |-> {e \in DOMAIN W.edges : W.edges[e].relation_type = "DEPENDS_ON"}]

get_dependency_graph_all_edges(g, W) ==
    LET rels == g.computation_relationships
        outputs == {i \in DOMAIN rels : rels[i].relation_type = "OUTPUT_TO"}
        reads == {i \in DOMAIN rels : rels[i].relation_type = "DEPENDS_ON"}
        inferred == {<<rels[x[1]].source_id, rels[x[2]].target_id>> : x \in
                        {x \in outputs \X reads :
                            /\ rels[x[1]].target_id = rels[x[2]].source_id
                            /\ rels[x[1]].property_name = rels[x[2]].property_name
                            /\ rels[x[1]].source_id # rels[x[2]].target_id}}
    IN [nodes |-> DOMAIN W.nodes, edges |-> (DOMAIN W.edges) \cup inferred]

get_dependency_graph(g, W) ==
    LET rels == g.computation_relationships
        depends == {e \in DOMAIN W.edges : W.edges[e].relation_type = "DEPENDS_ON"}
        outputs == {i \in DOMAIN rels : rels[i].relation_type = "OUTPUT_TO"}
        reads == {i \in DOMAIN rels : rels[i].relation_type = "DEPENDS_ON"}
        inferred == {<<rels[x[1]].source_id, rels[x[2]].target_id>> : x \in
                        {x \in outputs \X reads :
                            /\ rels[x[1]].target_id = rels[x[2]].source_id
                            /\ rels[x[1]].property_name = rels[x[2]].property_name
                            /\ rels[x[1]].source_id # rels[x[2]].target_id}}
    IN [nodes |-> DOMAIN W.nodes, edges |-> depends \cup inferred]

(***************************************************************************)
(* The sort key of _get_execution_order: (priority, node id).              *)
(* key_by_id is the variant that sorts by node id alone.                   *)
(***************************************************************************)
key_by_id(W, n) == <<0, n>>

key(W, n) ==
    IF "priority" \in DOMAIN W.nodes[n] THEN <<W.nodes[n].priority, n>> ELSE <<0, n>>

KeyLess(a, b) == a[1] < b[1] \/ (a[1] = b[1] /\ a[2] < b[2])

(***************************************************************************)
(* networkx.lexicographical_topological_sort: Kahn's algorithm popping the *)
(* smallest key among the zero in-degree vertices; raises                  *)
(* NetworkXUnfeasible when vertices are left over.                         *)
(***************************************************************************)
RECURSIVE lts_loop(_, _, _, _, _)
lts_loop(dep, W, indegree_map, zero_indegree, out) ==
    IF zero_indegree = {}
    THEN IF DOMAIN indegree_map # {}
         THEN [exc |-> "NetworkXUnfeasible", order |-> <<>>]
         ELSE [exc |-> "", order |-> out]
    ELSE LET node == CHOOSE n \in zero_indegree :
                        \A m \in zero_indegree \ {n} : KeyLess(key(W, n), key(W, m))
             children == {e[2] : e \in {e \in dep.edges : e[1] = node}}
             dec == [c \in DOMAIN indegree_map |->
                        IF c \in children THEN indegree_map[c] - 1 ELSE indegree_map[c]]
             freed == {c \in DOMAIN dec : dec[c] = 0}
         IN lts_loop(dep, W, [c \in (DOMAIN dec) \ freed |-> dec[c]],
                     (zero_indegree \ {node}) \cup freed, Append(out, node))

in_degree(dep, v) == Cardinality({e \in dep.edges : e[2] = v})

lexicographical_topological_sort(dep, W) ==
    lts_loop(dep, W,
             [v \in {v \in dep.nodes : in_degree(dep, v) > 0} |-> in_degree(dep, v)],
             {v \in dep.nodes : in_degree(dep, v) = 0}, <<>>)

(***************************************************************************)
(* networkx exception hierarchy: NetworkXUnfeasible derives from           *)
(* NetworkXAlgorithmError, which derives from NetworkXException;           *)
(* NetworkXError derives from NetworkXException only.                      *)
(***************************************************************************)
ExcBases(cls) ==
    CASE cls = "NetworkXUnfeasible" ->
            {"NetworkXUnfeasible", "NetworkXAlgorithmError", "NetworkXException", "Exception"}
      [] cls = "NetworkXError" -> {"NetworkXError", "NetworkXException", "Exception"}
      [] OTHER -> {cls, "Exception"}

(***************************************************************************)
(* ComputationGraphExecutor._get_execution_order: the order, None when the *)
(* except clause catches, or the exception that escapes.                   *)
(***************************************************************************)
get_execution_order(g, W) ==
    LET r == lexicographical_topological_sort(get_dependency_graph(g, W), W)
    IN IF r.exc = "" THEN [kind |-> "order", order |-> r.order, exc |-> ""]
       ELSE IF "NetworkXError" \in ExcBases(r.exc)
            THEN [kind |-> "None", order |-> <<>>, exc |-> ""]
            ELSE [kind |-> "raise", order |-> <<>>, exc |-> r.exc]

(***************************************************************************)
(* eval(code, safe_globals, variables) for the expressions of the model:   *)
(* a name that is not bound raises NameError, None + 1 raises TypeError,   *)
(* the empty string (a vertex without code) raises SyntaxError.            *)
(***************************************************************************)
CodeText == <<"1", "p", "p + 1", "q + 1">>

Codes == DOMAIN CodeText

EvalError == [ok |-> FALSE, value |-> None]

eval(code, variables) ==
    LET text == IF code \in DOMAIN CodeText THEN CodeText[code] ELSE ""
    IN CASE text = "1" -> [ok |-> TRUE, value |-> 1]
         [] text = "p" -> IF "p" \in DOMAIN variables
                          THEN [ok |-> TRUE, value |-> variables["p"]]
                          ELSE EvalError
         [] text = "p + 1" -> IF "p" \in DOMAIN variables /\ variables["p"] # None
                              THEN [ok |-> TRUE, value |-> variables["p"] + 1]
                              ELSE EvalError
         [] text = "q + 1" -> IF "q" \in DOMAIN variables /\ variables["q"] # None
                              THEN [ok |-> TRUE, value |-> variables["q"] + 1]
                              ELSE EvalError
         [] OTHER -> EvalError

(***************************************************************************)
(* The variables dict gathered by _execute_node: one entry per property    *)
(* name of the node's DEPENDS_ON relationships, the last relationship in   *)
(* insertion order winning; a property the source lacks is bound to None.  *)
(* gather_variables_skipping_missing is the variant of the loop of         *)
(* _execute_node that binds a variable only when the source holds the      *)
(* property, gather_variables_first_wins the one in which the first        *)
(* relationship in insertion order wins.                                   *)
(***************************************************************************)
gather_variables_skipping_missing(g, W, node_id) ==
    LET rels == g.computation_relationships
        idxs == {i \in DOMAIN rels :
                    /\ rels[i].relation_type = "DEPENDS_ON"
                    /\ rels[i].target_id = node_id
                    /\ rels[i].source_id \in DOMAIN W.nodes
                    /\ rels[i].property_name \in DOMAIN W.nodes[rels[i].source_id]}
        last(p) == CHOOSE i \in idxs :
                      /\ rels[i].property_name = p
                      /\ \A j \in idxs : rels[j].property_name = p => j <= i
    IN [p \in {rels[i].property_name : i \in idxs} |->
            W.nodes[rels[last(p)].source_id][p]]

gather_variables_first_wins(g, W, node_id) ==
    LET rels == g.computation_relationships
        idxs == {i \in DOMAIN rels :
                    /\ rels[i].relation_type = "DEPENDS_ON"
                    /\ rels[i].target_id = node_id
                    /\ rels[i].source_id \in DOMAIN W.nodes}
        first(p) == CHOOSE i \in idxs :
                      /\ rels[i].property_name = p
                      /\ \A j \in idxs : rels[j].property_name = p => i <= j
    IN [p \in {rels[i].property_name : i \in idxs} |->
            BagGet(W.nodes[rels[first(p)].source_id], p)]

gather_variables(g, W, node_id) ==
    LET rels == g.computation_relationships
        idxs == {i \in DOMAIN rels :
                    /\ rels[i].relation_type = "DEPENDS_ON"
                    /\ rels[i].target_id = node_id
                    /\ rels[i].source_id \in DOMAIN W.nodes}
        last(p) == CHOOSE i \in idxs :
                      /\ rels[i].property_name = p
                      /\ \A j \in idxs : rels[j].property_name = p => j <= i
    IN [p \in {rels[i].property_name : i \in idxs} |->
            BagGet(W.nodes[rels[last(p)].source_id], p)]

(***************************************************************************)
(* The writes of _execute_node: the result goes to the property named by   *)
(* the OUTPUT_TO edge of every successor of the node in the working graph. *)
(* write_outputs_accumulating is the variant that adds the result to a     *)
(* value already there instead of replacing it.                            *)
(***************************************************************************)
write_outputs_accumulating(W, node_id, result) ==
    [W EXCEPT !.nodes =
        [n \in DOMAIN W.nodes |->
            IF /\ <<node_id, n>> \in DOMAIN W.edges
               /\ W.edges[<<node_id, n>>].relation_type = "OUTPUT_TO"
            THEN LET k == W.edges[<<node_id, n>>].property_name
                     old == BagGet(W.nodes[n], k)
                 IN BagSet(W.nodes[n], k,
                           IF old = None \/ result = None THEN result ELSE old + result)
            ELSE W.nodes[n]]]

write_outputs(W, node_id, result) ==
    [W EXCEPT !.nodes =
        [n \in DOMAIN W.nodes |->
            IF /\ <<node_id, n>> \in DOMAIN W.edges
               /\ W.edges[<<node_id, n>>].relation_type = "OUTPUT_TO"
            THEN BagSet(W.nodes[n], W.edges[<<node_id, n>>].property_name, result)
            ELSE W.nodes[n]]]

(***************************************************************************)
(* ComputationGraphExecutor._execute_node                                  *)
(* execute_node_clearing is the variant that resets the outputs of a node  *)
(* whose evaluation raised to None.                                        *)
(***************************************************************************)
execute_node_clearing(g, W, node_id) ==
    LET node_data == W.nodes[node_id]
        code == IF "code" \in DOMAIN node_data THEN node_data["code"] ELSE 0
        r == eval(code, gather_variables(g, W, node_id))
    IN IF ~IsComputation(node_data)
       THEN [W |-> W, status |-> "skipped", result |-> None]
       ELSE IF r.ok
            THEN [W |-> write_outputs(W, node_id, r.value), status |-> "ok", result |-> r.value]
            ELSE [W |-> write_outputs(W, node_id, None), status |-> "error", result |-> None]

execute_node(g, W, node_id) ==
    LET node_data == W.nodes[node_id]
        code == IF "code" \in DOMAIN node_data THEN node_data["code"] ELSE 0
        r == eval(code, gather_variables(g, W, node_id))
    IN IF ~IsComputation(node_data)
       THEN [W |-> W, status |-> "skipped", result |-> None]
       ELSE IF r.ok
            THEN [W |-> write_outputs(W, node_id, r.value), status |-> "ok", result |-> r.value]
            ELSE [W |-> W, status |-> "error", result |-> None]

(***************************************************************************)
(* The loop of execute over the order; trace keeps, for every vertex       *)
(* visited, the working graph before and after _execute_node.              *)
(***************************************************************************)
RECURSIVE run_order(_, _, _, _)
run_order(g, W, order, trace) ==
    IF order = <<>>
    THEN [W |-> W, trace |-> trace]
    ELSE LET e == execute_node(g, W, Head(order))
         IN run_order(g, e.W, Tail(order),
                      Append(trace, [node_id |-> Head(order), status |-> e.status,
                                     result |-> e.result, before |-> W, after |-> e.W]))

(***************************************************************************)
(* ComputationGraphExecutor.execute                                        *)
(***************************************************************************)
execute(g, W) ==
    LET o == get_execution_order(g, W)
        run == run_order(g, W, o.order, <<>>)
    IN CASE o.kind = "None" ->
              [W |-> W, outcome |-> "False", kind |-> o.kind, exc |-> "",
               order |-> <<>>, trace |-> <<>>]
         [] o.kind = "raise" ->
              [W |-> W, outcome |-> "raise", kind |-> o.kind, exc |-> o.exc,
               order |-> <<>>, trace |-> <<>>]
         [] OTHER ->
              [W |-> run.W, outcome |-> "True", kind |-> o.kind, exc |-> "",
               order |-> o.order, trace |-> run.trace]

(***************************************************************************)
(* The node ids whose bag in the caller's node_data_map is the same dict   *)
(* object as the bag of the vertex in the working graph.                   *)
(* G.add_node(node_id, **node_data, ...) unpacks the items into a dict of  *)
(* the vertex's own, so no bag is shared; shared_bags_all is the variant   *)
(* in which the vertex keeps the caller's dict.  node_data_map_after is    *)
(* the caller's node_data_map once the working graph has become W.         *)
(***************************************************************************)
shared_bags_all(ndm) == DOMAIN ndm

shared_bags(ndm) == {}

node_data_map_after(ndm, W) ==
    [n \in DOMAIN ndm |->
        IF n \in shared_bags(ndm) /\ n \in DOMAIN W.nodes THEN W.nodes[n] ELSE ndm[n]]

(***************************************************************************)
(* A second executor constructed from the same graph and node_data_map:    *)
(* the vertices of its working graph whose bag is the same dict object as  *)
(* the bag of the vertex of the first one.  Every constructor call makes   *)
(* its own nx.DiGraph() and add_node gives every vertex a dict of its own, *)
(* so there is none; shared_vertices_all is the variant in which the two   *)
(* working graphs hold the same bags.  other_after is the working graph    *)
(* of the second executor once that of the first has become W.             *)
(***************************************************************************)
shared_vertices_all(O) == DOMAIN O.nodes

shared_vertices(O) == {}

other_after(O, W) ==
    [O EXCEPT !.nodes =
        [n \in DOMAIN O.nodes |->
            IF n \in shared_vertices(O) /\ n \in DOMAIN W.nodes THEN W.nodes[n] ELSE O.nodes[n]]]

(***************************************************************************)
(* ComputationGraphExecutor.update_node_property                           *)
(* update_node_property_creating is the variant that adds a vertex for an  *)
(* id that is not in the working graph.                                    *)
(***************************************************************************)
update_node_property_creating(W, node_id, property_name, value) ==
    [W EXCEPT !.nodes =
        [n \in (DOMAIN W.nodes) \cup {node_id} |->
            IF n = node_id
            THEN BagSet(IF n \in DOMAIN W.nodes THEN W.nodes[n] ELSE EmptyBag,
                        property_name, value)
            ELSE W.nodes[n]]]

update_node_property(W, node_id, property_name, value) ==
    IF node_id \in DOMAIN W.nodes
    THEN [W EXCEPT !.nodes[node_id] = BagSet(@, property_name, value)]
    ELSE W

(***************************************************************************)
(* ComputationGraphExecutor.snapshot_data_nodes / restore_data_nodes       *)
(***************************************************************************)
snapshot_data_nodes(W) ==
    [n \in {n \in DOMAIN W.nodes : ~IsComputation(W.nodes[n])} |-> W.nodes[n]]

restore_data_nodes(W, snap) ==
    [W EXCEPT !.nodes =
        [n \in DOMAIN W.nodes |-> IF n \in DOMAIN snap THEN snap[n] ELSE W.nodes[n]]]

(***************************************************************************)
(* ComputationGraphExecutor.get_node_data: a copy of the whole bag of the  *)
(* vertex, None for an id that is not a vertex.                            *)
(***************************************************************************)
get_node_data(W, node_id) ==
    IF node_id \in DOMAIN W.nodes THEN W.nodes[node_id] ELSE None

(***************************************************************************)
(* ComputationGraphExecutor.get_all_data_nodes                             *)
(***************************************************************************)
get_all_data_nodes(W) ==
    [n \in {n \in DOMAIN W.nodes : ~IsComputation(W.nodes[n])} |->
        BagWithout(W.nodes[n], "is_computation")]

(***************************************************************************)
(* what_if_simulator._compute_diff: the nodes and the properties of either *)
(* state are visited in the iteration order of a set; dict.get makes an    *)
(* absent property read as None.                                           *)
(***************************************************************************)
node_diff(baseline, scenario, node_id) ==
    LET b_props == IF node_id \in DOMAIN baseline THEN baseline[node_id] ELSE EmptyBag
        s_props == IF node_id \in DOMAIN scenario THEN scenario[node_id] ELSE EmptyBag
        all_props == SetToSeq((DOMAIN b_props) \cup (DOMAIN s_props))
        differs(prop) == BagGet(b_props, prop) # BagGet(s_props, prop)
        changed == SelectSeq(all_props, differs)
    IN [i \in DOMAIN changed |->
            [node_id |-> node_id, property_name |-> changed[i],
             baseline_value |-> BagGet(b_props, changed[i]),
             scenario_value |-> BagGet(s_props, changed[i])]]

RECURSIVE diff_over(_, _, _)
diff_over(baseline, scenario, all_nodes) ==
    IF all_nodes = <<>> THEN <<>>
    ELSE node_diff(baseline, scenario, Head(all_nodes))
            \o diff_over(baseline, scenario, Tail(all_nodes))

compute_diff(baseline, scenario) ==
    diff_over(baseline, scenario, SetToSeq((DOMAIN baseline) \cup (DOMAIN scenario)))

(***************************************************************************)
(* what_if_simulator._property_changes_to_overrides                        *)
(***************************************************************************)
property_changes_to_overrides(property_changes) ==
    LET idx == DOMAIN property_changes
        last(n, k) == CHOOSE i \in idx :
                         /\ property_changes[i][1] = n /\ property_changes[i][2] = k
                         /\ \A j \in idx :
                               (property_changes[j][1] = n /\ property_changes[j][2] = k) => j <= i
    IN [n \in {property_changes[i][1] : i \in idx} |->
          [k \in {property_changes[i][2] : i \in {i \in idx : property_changes[i][1] = n}} |->
              property_changes[last(n, k)][3]]]

(***************************************************************************)
(* sorted({d["node_id"] for d in diff}); sorted_descending is the variant  *)
(* that lists the largest first.                                           *)
(***************************************************************************)
RECURSIVE sorted_descending(_)
sorted_descending(S) ==
    IF S = {} THEN <<>>
    ELSE LET x == CHOOSE x \in S : \A y \in S : x >= y IN <<x>> \o sorted_descending(S \ {x})

RECURSIVE sorted(_)
sorted(S) ==
    IF S = {} THEN <<>>
    ELSE LET x == CHOOSE x \in S : \A y \in S : x <= y IN <<x>> \o sorted(S \ {x})

(***************************************************************************)
(* ComputationGraph.get_data_node_ids; the relationships are the values of *)
(* the mapping, whatever its keys.                                         *)
(* get_data_node_ids_all_endpoints is the variant that takes both ends of  *)
(* every relationship.                                                     *)
(***************************************************************************)
get_data_node_ids_all_endpoints(g) ==
    LET rels == g.computation_relationships
    IN ({rels[i].source_id : i \in DOMAIN rels} \cup {rels[i].target_id : i \in DOMAIN rels})
           \ DOMAIN g.computation_nodes

get_data_node_ids(g) ==
    LET rels == g.computation_relationships
        candidate_ids ==
            {rels[i].source_id : i \in {i \in DOMAIN rels : rels[i].relation_type = "DEPENDS_ON"}}
            \cup {rels[i].target_id : i \in {i \in DOMAIN rels : rels[i].relation_type = "OUTPUT_TO"}}
    IN candidate_ids \ DOMAIN g.computation_nodes

(***************************************************************************)
(* Neo4jGraphManager.load_data_nodes_from_neo4j and                        *)
(* load_graph_data_from_neo4j.  db is what the data provider answers for   *)
(* every uuid: whether get_data_node_by_uuid finds a node, its             *)
(* properties, and whether merge_data_node gives back the uuid.            *)
(* load_graph_data_from_neo4j_partial is the variant without the check     *)
(* for missing ids.                                                        *)
(***************************************************************************)
load_data_nodes_from_neo4j(db, uuids) ==
    [uuid \in {u \in uuids : u \in DOMAIN db /\ db[u].found /\ db[u].merged} |-> db[uuid].props]

load_graph_data_from_neo4j_partial(db, g) ==
    [outcome |-> "return", exc |-> "", missing |-> <<>>,
     node_data_map |-> load_data_nodes_from_neo4j(db, get_data_node_ids(g))]

load_graph_data_from_neo4j(db, g) ==
    LET data_node_ids == get_data_node_ids(g)
        loaded == load_data_nodes_from_neo4j(db, data_node_ids)
        missing == data_node_ids \ DOMAIN loaded
    IN IF missing # {}
       THEN [outcome |-> "raise", exc |-> "ValueError", missing |-> sorted(missing),
             node_data_map |-> EmptyBag]
       ELSE [outcome |-> "return", exc |-> "", missing |-> <<>>, node_data_map |-> loaded]

(***************************************************************************)
(* ComputationGraph.get_output_properties_by_data_node                     *)
(* get_output_properties_by_data_node_any_target is the variant that does  *)
(* not pass over the relationships whose target is a computation node.     *)
(***************************************************************************)
get_output_properties_by_data_node_any_target(g) ==
    LET rels == g.computation_relationships
        isOut(i) == rels[i].relation_type = "OUTPUT_TO"
        outs == SelectSeq([i \in DOMAIN rels |-> i], isOut)
        of(n) == SelectSeq(outs, LAMBDA i : rels[i].target_id = n)
    IN [n \in {rels[outs[j]].target_id : j \in DOMAIN outs} |->
            [j \in DOMAIN of(n) |-> rels[of(n)[j]].property_name]]

get_output_properties_by_data_node(g) ==
    LET rels == g.computation_relationships
        comp_ids == DOMAIN g.computation_nodes
        isOut(i) == rels[i].relation_type = "OUTPUT_TO" /\ rels[i].target_id \notin comp_ids
        outs == SelectSeq([i \in DOMAIN rels |-> i], isOut)
        of(n) == SelectSeq(outs, LAMBDA i : rels[i].target_id = n)
    IN [n \in {rels[outs[j]].target_id : j \in DOMAIN outs} |->
            [j \in DOMAIN of(n) |-> rels[of(n)[j]].property_name]]

(***************************************************************************)
(* what_if_simulator._build_outputs_per_node                               *)
(* build_outputs_per_node_whole_state is the variant that gives every      *)
(* property the scenario state holds for the node.                         *)
(***************************************************************************)
build_outputs_per_node_whole_state(g, scenario) ==
    LET output_props_by_node == get_output_properties_by_data_node(g)
    IN [n \in DOMAIN output_props_by_node |->
            IF n \in DOMAIN scenario THEN scenario[n] ELSE EmptyBag]

build_outputs_per_node(g, scenario) ==
    LET output_props_by_node == get_output_properties_by_data_node(g)
        node_state(n) == IF n \in DOMAIN scenario THEN scenario[n] ELSE EmptyBag
        names(n) == {output_props_by_node[n][j] : j \in DOMAIN output_props_by_node[n]}
    IN [n \in DOMAIN output_props_by_node |->
            [p \in names(n) \cap DOMAIN node_state(n) |-> node_state(n)[p]]]

(***************************************************************************)
(* The loop of run_scenario applying the property changes in list order.   *)
(* apply_property_changes_first_wins is the variant that applies them      *)
(* last to first.                                                          *)
(***************************************************************************)
RECURSIVE apply_property_changes_first_wins(_, _)
apply_property_changes_first_wins(W, property_changes) ==
    IF property_changes = <<>> THEN W
    ELSE LET c == property_changes[Len(property_changes)]
         IN apply_property_changes_first_wins(
                update_node_property(W, c[1], c[2], c[3]),
                SubSeq(property_changes, 1, Len(property_changes) - 1))

RECURSIVE apply_property_changes(_, _)
apply_property_changes(W, property_changes) ==
    IF property_changes = <<>> THEN W
    ELSE LET c == Head(property_changes)
         IN apply_property_changes(update_node_property(W, c[1], c[2], c[3]),
                                   Tail(property_changes))

(***************************************************************************)
(* WhatIfSimulator.run_scenario: snapshot, baseline, overrides, execute,   *)
(* result, and the restore of the finally clause, which also runs when     *)
(* execute raises.  scenario_result is the part after the call of execute, *)
(* x being what that call did.  scenario_result_reporting_errors is the    *)
(* variant that lists the nodes whose evaluation raised in errors and      *)
(* clears success when there is one.                                       *)
(***************************************************************************)
scenario_result_reporting_errors(g, snap, baseline, property_changes, x) ==
    LET scenario == get_all_data_nodes(x.W)
        diff == compute_diff(baseline, scenario)
        failed == SelectSeq(x.trace, LAMBDA t : t.status = "error")
    IN IF x.outcome = "raise"
       THEN [W |-> restore_data_nodes(x.W, snap), raised |-> TRUE, exc |-> x.exc,
             result |-> [success |-> FALSE]]
       ELSE [W |-> restore_data_nodes(x.W, snap), raised |-> FALSE, exc |-> "",
             result |-> [baseline |-> baseline,
                         scenario |-> scenario,
                         diff |-> diff,
                         overrides |-> property_changes_to_overrides(property_changes),
                         outputs_per_node |-> build_outputs_per_node(g, scenario),
                         affected_node_ids |-> sorted({diff[i].node_id : i \in DOMAIN diff}),
                         errors |-> [i \in DOMAIN failed |-> failed[i].node_id],
                         success |-> failed = <<>>]]

scenario_result(g, snap, baseline, property_changes, x) ==
    LET scenario == get_all_data_nodes(x.W)
        diff == compute_diff(baseline, scenario)
    IN IF x.outcome = "raise"
       THEN [W |-> restore_data_nodes(x.W, snap), raised |-> TRUE, exc |-> x.exc,
             result |-> [success |-> FALSE]]
       ELSE [W |-> restore_data_nodes(x.W, snap), raised |-> FALSE, exc |-> "",
             result |-> [baseline |-> baseline,
                         scenario |-> scenario,
                         diff |-> diff,
                         overrides |-> property_changes_to_overrides(property_changes),
                         outputs_per_node |-> build_outputs_per_node(g, scenario),
                         affected_node_ids |-> sorted({diff[i].node_id : i \in DOMAIN diff}),
                         errors |-> <<>>,
                         success |-> TRUE]]

run_scenario(g, W, property_changes) ==
    scenario_result(g, snapshot_data_nodes(W), get_all_data_nodes(W), property_changes,
                    execute(g, apply_property_changes(W, property_changes)))

(***************************************************************************)
(* The ComputationGraph values of a program and the dicts they refer to.   *)
(* heap is the sequence of the dict objects allocated so far, a graph      *)
(* value holds the position of the dict of each of its four mapping        *)
(* fields, and Deref gives the content the fields have now.  A fresh       *)
(* ComputationGraph has four empty dicts of its own (default_factory).     *)
(***************************************************************************)
Deref(heap, g) ==
    [computation_nodes |-> heap[g.computation_nodes],
     computation_relationships |-> heap[g.computation_relationships],
     outgoing |-> heap[g.outgoing],
     incoming |-> heap[g.incoming]]

NewComputationGraph ==
    LET g == [computation_nodes |-> 1, computation_relationships |-> 2,
              outgoing |-> 3, incoming |-> 4]
        heap == <<EmptyBag, EmptyBag, EmptyBag, EmptyBag>>
    IN [heap |-> heap, graphs |-> <<g>>, receiver |-> <<0>>, produced |-> <<Deref(heap, g)>>]

(***************************************************************************)
(* ComputationGraph.add_computation_node: one new dict for the nodes, the  *)
(* other three fields refer to the dicts of the receiver.                  *)
(* add_computation_node_in_place is the variant that stores the node in    *)
(* the dict of the receiver.                                               *)
(***************************************************************************)
add_computation_node_in_place(heap, self, node) ==
    [heap |-> [heap EXCEPT ![self.computation_nodes] = BagSet(@, node.id, node)],
     graph |-> self]

add_computation_node(heap, self, node) ==
    LET new_nodes == BagSet(heap[self.computation_nodes], node.id, node)
    IN [heap |-> Append(heap, new_nodes),
        graph |-> [self EXCEPT !.computation_nodes = Len(heap) + 1]]

(***************************************************************************)
(* ComputationGraph.add_computation_relationship: new dicts for the        *)
(* relationships and the two indexes, the id appended to a new tuple.      *)
(***************************************************************************)
IndexWith(index, node_id, relationship_id) ==
    BagSet(index, node_id,
           IF node_id \in DOMAIN index
           THEN Append(index[node_id], relationship_id)
           ELSE <<relationship_id>>)

add_computation_relationship(heap, self, relationship) ==
    LET new_relationships == BagSet(heap[self.computation_relationships],
                                    relationship.id, relationship)
        new_outgoing == IndexWith(heap[self.outgoing], relationship.source_id, relationship.id)
        new_incoming == IndexWith(heap[self.incoming], relationship.target_id, relationship.id)
    IN [heap |-> heap \o <<new_relationships, new_outgoing, new_incoming>>,
        graph |-> [self EXCEPT !.computation_relationships = Len(heap) + 1,
                               !.outgoing = Len(heap) + 2,
                               !.incoming = Len(heap) + 3]]

(***************************************************************************)
(* Calls on the executor and the simulator.  ret is what the last call     *)
(* returned; snapshot is the snapshot the caller holds, together with the  *)
(* view get_all_data_nodes gave when it was taken and whether every        *)
(* update_node_property since then named an id that is not a computation   *)
(* node of the graph.  The values written are None, a falsy integer and a  *)
(* truthy integer; the bookkeeping keys are written with integers only.    *)
(***************************************************************************)
NoSnapshot == [taken |-> FALSE]

NoCalls == [started |-> FALSE]

PropertyNames == RelProps \cup BookkeepingKeys

PropertyChanges ==
    {c \in (NodeIds \cup UnknownIds) \X PropertyNames \X {None, 0, 2} :
        c[2] \in BookkeepingKeys => c[3] # None}

ValuesBelow(W, bound) ==
    \A n \in DOMAIN W.nodes : \A k \in (DOMAIN W.nodes[n]) \cap RelProps : W.nodes[n][k] < bound

GetExecutionOrder ==
    /\ LET o == get_execution_order(graph, G)
       IN ret' = [op |-> "get_execution_order", kind |-> o.kind, order |-> o.order]
    /\ UNCHANGED <<graph, node_data_map, G, snapshot, steps, built, calls, other>>

Execute ==
    /\ ValuesBelow(G, MaxValue)
    /\ \E x \in {execute(graph, G)} :
          /\ G' = x.W
          /\ ret' = [op |-> "execute", outcome |-> x.outcome, kind |-> x.kind,
                     order |-> x.order, trace |-> x.trace,
                     rerun |-> ret.op = "execute",
                     previous_order |-> IF ret.op = "execute" THEN ret.order ELSE <<>>,
                     before |-> get_all_data_nodes(G)]
    /\ node_data_map' = node_data_map_after(node_data_map, G')
    /\ other' = other_after(other, G')
    /\ UNCHANGED <<graph, snapshot, steps, built, calls>>

UpdateNodeProperty ==
    /\ steps < MaxSteps
    /\ \E c \in PropertyChanges :
          /\ G' = update_node_property(G, c[1], c[2], c[3])
          /\ ret' = [op |-> "update_node_property", node_id |-> c[1]]
          /\ snapshot' = IF snapshot.taken /\ c[1] \in DOMAIN graph.computation_nodes
                         THEN [snapshot EXCEPT !.only_data_updates = FALSE]
                         ELSE snapshot
    /\ steps' = steps + 1
    /\ node_data_map' = node_data_map_after(node_data_map, G')
    /\ other' = other_after(other, G')
    /\ UNCHANGED <<graph, built, calls>>

SnapshotDataNodes ==
    /\ snapshot' = [taken |-> TRUE, data |-> snapshot_data_nodes(G),
                    view |-> get_all_data_nodes(G), only_data_updates |-> TRUE]
    /\ ret' = [op |-> "snapshot_data_nodes"]
    /\ UNCHANGED <<graph, node_data_map, G, steps, built, calls, other>>

RestoreDataNodes ==
    /\ snapshot.taken
    /\ G' = restore_data_nodes(G, snapshot.data)
    /\ ret' = [op |-> "restore_data_nodes", undone |-> get_all_data_nodes(G)]
    /\ node_data_map' = node_data_map_after(node_data_map, G')
    /\ other' = other_after(other, G')
    /\ UNCHANGED <<graph, snapshot, steps, built, calls>>

RunScenarioWith(property_changes) ==
    /\ steps < MaxSteps
    /\ \E r \in {run_scenario(graph, G, property_changes)} :
       \E never \in {run_scenario(graph, IF ret.op = "run_scenario" THEN ret.executor ELSE G,
                                  property_changes)} :
          /\ G' = r.W
          /\ ret' = [op |-> "run_scenario", property_changes |-> property_changes,
                     raised |-> r.raised, result |-> r.result,
                     executor |-> G, before |-> get_all_data_nodes(G),
                     follows_run |-> ret.op = "run_scenario",
                     never_raised |-> never.raised, never_result |-> never.result]
    /\ steps' = steps + 1
    /\ node_data_map' = node_data_map_after(node_data_map, G')
    /\ other' = other_after(other, G')
    /\ UNCHANGED <<graph, snapshot, built, calls>>

RunScenario ==
    \E property_changes \in SeqsUpTo(PropertyChanges, MaxOverrides) :
        RunScenarioWith(property_changes)

(***************************************************************************)
(* run_scenario with lists of up to MaxDataOverrides overrides of the      *)
(* properties of the data node, so that one list can override the same     *)
(* property twice.                                                         *)
(***************************************************************************)
DataOverrides == DataIds \X RelProps \X {None, 0, 2}

RunScenarioOnData ==
    \E property_changes \in SeqsUpTo(DataOverrides, MaxDataOverrides) :
        RunScenarioWith(property_changes)

(***************************************************************************)
(* Families of graphs and the initial data of the data node.               *)
(*   OrderGraphs    every relationship list up to MaxOrderRels, every      *)
(*                  priority, constant code;                               *)
(*   ExecGraphs     every relationship list up to MaxRels, every code and  *)
(*                  priority;                                              *)
(*   ScenarioGraphs relationship lists up to MaxRels over the reads and    *)
(*                  writes of the data node and one self-dependency, with  *)
(*                  node 1 computing p + 1 and node 3 computing q + 1.     *)
(***************************************************************************)
InitialData == [n \in DataIds |-> [p |-> 1]]

OrderGraphs ==
    [computation_nodes : [CompIds -> [code : {1}, priority : Priorities]],
     computation_relationships : SeqsUpTo(RelAlphabet, MaxOrderRels)]

ExecGraphs ==
    [computation_nodes : [CompIds -> [code : Codes, priority : Priorities]],
     computation_relationships : SeqsUpTo(RelAlphabet, MaxRels)]

ScenarioRels ==
    {[source_id |-> 2, target_id |-> 1, relation_type |-> "DEPENDS_ON", property_name |-> "p"],
     [source_id |-> 1, target_id |-> 2, relation_type |-> "OUTPUT_TO", property_name |-> "q"],
     [source_id |-> 1, target_id |-> 2, relation_type |-> "OUTPUT_TO", property_name |-> "p"],
     [source_id |-> 2, target_id |-> 3, relation_type |-> "DEPENDS_ON", property_name |-> "q"],
     [source_id |-> 3, target_id |-> 2, relation_type |-> "OUTPUT_TO", property_name |-> "p"],
     [source_id |-> 3, target_id |-> 3, relation_type |-> "DEPENDS_ON", property_name |-> "q"]}

ScenarioGraphs ==
    [computation_nodes : {[n \in CompIds |-> [code |-> IF n = 1 THEN 3 ELSE 4, priority |-> 0]]},
     computation_relationships : SeqsUpTo(ScenarioRels, MaxRels)]

InitWith(graphs) ==
    /\ graph \in graphs
    /\ node_data_map = InitialData
    /\ G = build_networkx_graph(graph, node_data_map)
    /\ snapshot = NoSnapshot
    /\ ret = [op |-> "init"]
    /\ steps = 0
    /\ built = NewComputationGraph
    /\ calls = NoCalls
    /\ other = build_networkx_graph(graph, node_data_map)

(***************************************************************************)
(* SpecOrder: the execution order of freshly built executors.              *)
(***************************************************************************)
InitOrder == InitWith(OrderGraphs)

NextOrder == GetExecutionOrder

SpecOrder == InitOrder /\ [][NextOrder]_vars

(***************************************************************************)
(* SpecExec: execute, run again and again on the same executor.            *)
(***************************************************************************)
InitExec == InitWith(ExecGraphs)

NextExec == Execute

SpecExec == InitExec /\ [][NextExec]_vars

(***************************************************************************)
(* SpecSnap: update_node_property, execute, snapshot and restore in any    *)
(* order.                                                                  *)
(***************************************************************************)
InitSnap == InitWith(ScenarioGraphs)

NextSnap == UpdateNodeProperty \/ Execute \/ SnapshotDataNodes \/ RestoreDataNodes

SpecSnap == InitSnap /\ [][NextSnap]_vars

(***************************************************************************)
(* SpecScenario: execute and run_scenario calls one after the other.       *)
(***************************************************************************)
InitScenario == InitWith(ScenarioGraphs)

NextScenario == Execute \/ RunScenario

SpecScenario == InitScenario /\ [][NextScenario]_vars

(***************************************************************************)
(* Spec: every call in any order.                                          *)
(***************************************************************************)
Init == InitWith(ScenarioGraphs)

Next ==
    \/ GetExecutionOrder
    \/ Execute
    \/ UpdateNodeProperty
    \/ SnapshotDataNodes
    \/ RestoreDataNodes
    \/ RunScenario

Spec == Init /\ [][Next]_vars

(***************************************************************************)
(* The dependency relation the documentation of _get_dependency_graph      *)
(* describes, read off the relationship list: every DEPENDS_ON             *)
(* relationship, and writer -> reader for every OUTPUT_TO / DEPENDS_ON     *)
(* pair on the same node and property with different computations.         *)
(***************************************************************************)
DependsOnPairs(g) ==
    LET rels == g.computation_relationships
    IN {<<rels[i].source_id, rels[i].target_id>> :
            i \in {i \in DOMAIN rels : rels[i].relation_type = "DEPENDS_ON"}}

WriterReaderPairs(g) ==
    LET rels == g.computation_relationships
    IN {<<rels[x[1]].source_id, rels[x[2]].target_id>> : x \in
            {x \in (DOMAIN rels) \X (DOMAIN rels) :
                /\ rels[x[1]].relation_type = "OUTPUT_TO"
                /\ rels[x[2]].relation_type = "DEPENDS_ON"
                /\ rels[x[1]].target_id = rels[x[2]].source_id
                /\ rels[x[1]].property_name = rels[x[2]].property_name
                /\ rels[x[1]].source_id # rels[x[2]].target_id}}

DeclaredDependencies(g) == DependsOnPairs(g) \cup WriterReaderPairs(g)

HasCycle(edges) ==
    \E S \in (SUBSET NodeIds) \ {{}} : \A n \in S : \E m \in S : <<m, n>> \in edges

Pos(order, n) == CHOOSE i \in DOMAIN order : order[i] = n

Precedes(order, a, b) ==
    /\ \E i \in DOMAIN order : order[i] = a
    /\ \E i \in DOMAIN order : order[i] = b
    /\ Pos(order, a) < Pos(order, b)

ReturnedOrder == ret.op = "get_execution_order" /\ ret.kind = "order"

Executed == ret.op = "execute" /\ ret.outcome = "True"

OutputRels(g, node_id) ==
    {i \in DOMAIN g.computation_relationships :
        /\ g.computation_relationships[i].relation_type = "OUTPUT_TO"
        /\ g.computation_relationships[i].source_id = node_id}

(***************************************************************************)
(* C1: for an acyclic graph, the order returned by _get_execution_order    *)
(* places the source of every DEPENDS_ON relationship before its target    *)
(* and every writer of (D, P) before every other computation reading       *)
(* (D, P), whatever the priorities.                                        *)
(***************************************************************************)
C1_OrderRespectsDependencies ==
    (ReturnedOrder /\ ~HasCycle(DeclaredDependencies(graph)))
        => \A e \in DeclaredDependencies(graph) : Precedes(ret.order, e[1], e[2])

(***************************************************************************)
(* C3: when the declared dependencies contain a cycle,                     *)
(* _get_execution_order returns None and execute returns False; no         *)
(* exception escapes execute.                                              *)
(***************************************************************************)
C3_CycleReportedByReturnValue ==
    (HasCycle(DeclaredDependencies(graph)) /\ ret.op = "execute")
        => (ret.kind = "None" /\ ret.outcome = "False")

(***************************************************************************)
(* C4: a node whose evaluation raises leaves every property named by its   *)
(* OUTPUT_TO relationships as it was (present with the same value, or      *)
(* absent), and every vertex of the order after it is still visited and,   *)
(* if a computation, evaluated.                                            *)
(***************************************************************************)
SameProperty(b1, b2, k) ==
    /\ (k \in DOMAIN b1) = (k \in DOMAIN b2)
    /\ k \in DOMAIN b1 => b1[k] = b2[k]

C4_FailedNodeLeavesOutputs ==
    Executed =>
        /\ Len(ret.trace) = Len(ret.order)
        /\ \A i \in DOMAIN ret.trace :
              /\ ret.trace[i].node_id = ret.order[i]
              /\ (IsComputation(ret.trace[i].before.nodes[ret.order[i]])
                    => ret.trace[i].status \in {"ok", "error"})
              /\ ret.trace[i].status = "error" =>
                    \A r \in OutputRels(graph, ret.trace[i].node_id) :
                        LET rel == graph.computation_relationships[r]
                        IN SameProperty(ret.trace[i].before.nodes[rel.target_id],
                                        ret.trace[i].after.nodes[rel.target_id],
                                        rel.property_name)

C4_Witness ==
    /\ Executed
    /\ \E i \in DOMAIN ret.trace : \E j \in DOMAIN ret.trace :
          /\ i < j
          /\ ret.trace[i].status = "error"
          /\ ret.trace[j].status = "ok"
          /\ \E r \in OutputRels(graph, ret.trace[i].node_id) :
                LET rel == graph.computation_relationships[r]
                IN /\ rel.property_name \in DOMAIN ret.trace[i].before.nodes[rel.target_id]
                   /\ \E d \in DOMAIN graph.computation_relationships :
                         LET dr == graph.computation_relationships[d]
                         IN /\ dr.relation_type = "DEPENDS_ON"
                            /\ dr.target_id = ret.trace[j].node_id
                            /\ dr.source_id = rel.target_id
                            /\ dr.property_name = rel.property_name

(***************************************************************************)
(* C7: at every position of the order, the vertex placed is the one with   *)
(* the smallest (priority, id) among the vertices whose predecessors in    *)
(* the dependency graph are all placed; data vertices have priority 0.     *)
(***************************************************************************)
DeclaredPriority(g, n) ==
    IF n \in DOMAIN g.computation_nodes THEN g.computation_nodes[n].priority ELSE 0

Eligible(dep, placed) ==
    {n \in dep.nodes \ placed : \A e \in dep.edges : e[2] = n => e[1] \in placed}

C7_LowestPriorityFirst ==
    ReturnedOrder =>
        LET dep == get_dependency_graph(graph, G)
        IN \A i \in DOMAIN ret.order :
              LET placed == {ret.order[j] : j \in 1..(i - 1)}
                  n == ret.order[i]
              IN /\ n \in Eligible(dep, placed)
                 /\ \A m \in Eligible(dep, placed) \ {n} :
                       \/ DeclaredPriority(graph, n) < DeclaredPriority(graph, m)
                       \/ /\ DeclaredPriority(graph, n) = DeclaredPriority(graph, m)
                          /\ n < m

C7_Witness ==
    /\ ReturnedOrder
    /\ Len(ret.order) = 3
    /\ \E i \in 1..2 :
          /\ DeclaredPriority(graph, ret.order[i]) < DeclaredPriority(graph, ret.order[i + 1])
          /\ ret.order[i] > ret.order[i + 1]
          /\ ret.order[i + 1] \in Eligible(get_dependency_graph(graph, G),
                                           {ret.order[j] : j \in 1..(i - 1)})

(***************************************************************************)
(* C8: a node that evaluates successfully writes its result to the named   *)
(* property of the target of every one of its OUTPUT_TO relationships.     *)
(***************************************************************************)
C8_ResultWrittenToEveryOutput ==
    Executed =>
        \A i \in DOMAIN ret.trace :
            ret.trace[i].status = "ok" =>
                \A r \in OutputRels(graph, ret.trace[i].node_id) :
                    LET rel == graph.computation_relationships[r]
                    IN /\ rel.property_name \in DOMAIN ret.trace[i].after.nodes[rel.target_id]
                       /\ ret.trace[i].after.nodes[rel.target_id][rel.property_name]
                             = ret.trace[i].result

(***************************************************************************)
(* C2: get_all_data_nodes() is the same immediately before and immediately *)
(* after run_scenario, whatever node ids and property names the overrides  *)
(* name, whether the run returns or raises.                                *)
(***************************************************************************)
C2_ScenarioLeavesDataNodes ==
    ret.op = "run_scenario" => get_all_data_nodes(G) = ret.before

(***************************************************************************)
(* C5: restore_data_nodes(s), called after update_node_property calls on   *)
(* data nodes (ids that are not computation nodes of the graph) and        *)
(* execute calls that followed s = snapshot_data_nodes(), makes            *)
(* get_all_data_nodes() equal to what it was when s was taken.             *)
(***************************************************************************)
C5_RestoreUndoesDataUpdates ==
    (ret.op = "restore_data_nodes" /\ snapshot.only_data_updates)
        => get_all_data_nodes(G) = snapshot.view

(***************************************************************************)
(* C6: the diff of run_scenario has one entry for exactly the (node id,    *)
(* property name) pairs whose baseline and scenario values differ, a pair  *)
(* present in only one of the two states included, and no pair twice.      *)
(***************************************************************************)
BagOf(state, n) == IF n \in DOMAIN state THEN state[n] ELSE EmptyBag

DifferingPairs(baseline, scenario) ==
    UNION {{<<n, k>> : k \in {k \in (DOMAIN BagOf(baseline, n)) \cup (DOMAIN BagOf(scenario, n)) :
                                ~SameProperty(BagOf(baseline, n), BagOf(scenario, n), k)}} :
           n \in (DOMAIN baseline) \cup (DOMAIN scenario)}

C6_DiffIsExactlyTheChanges ==
    (ret.op = "run_scenario" /\ ~ret.raised) =>
        LET diff == ret.result.diff
        IN /\ {<<diff[i].node_id, diff[i].property_name>> : i \in DOMAIN diff}
                 = DifferingPairs(ret.result.baseline, ret.result.scenario)
           /\ \A i \in DOMAIN diff : \A j \in DOMAIN diff :
                 (diff[i].node_id = diff[j].node_id
                    /\ diff[i].property_name = diff[j].property_name) => i = j

ReadsOwnOutput(g) ==
    LET rels == g.computation_relationships
    IN \E r \in DOMAIN rels : \E w \in DOMAIN rels :
          /\ rels[r].relation_type = "DEPENDS_ON"
          /\ rels[w].relation_type = "OUTPUT_TO"
          /\ rels[w].source_id = rels[r].target_id
          /\ rels[w].target_id = rels[r].source_id
          /\ rels[w].property_name = rels[r].property_name

C10_ScenarioDoesNotLeak ==
    (ret.op = "run_scenario" /\ ret.follows_run) =>
        /\ ret.raised = ret.never_raised
        /\ ~ret.raised =>
              /\ ret.result.baseline = ret.never_result.baseline
              /\ ret.result.scenario = ret.never_result.scenario
              /\ ret.result.diff = ret.never_result.diff

(***************************************************************************)
(* C11: execute returns True for every graph whose declared dependencies   *)
(* are acyclic, also when nodes fail to evaluate and when a data node is   *)
(* read and written by computations on different properties; it returns    *)
(* False only when the dependencies contain a cycle.                       *)
(***************************************************************************)
C11_AcyclicGraphReturnsTrue ==
    ret.op = "execute" =>
        /\ ~HasCycle(DeclaredDependencies(graph)) => ret.outcome = "True"
        /\ ret.outcome = "False" => HasCycle(DeclaredDependencies(graph))

C11_Witness ==
    /\ Executed
    /\ ~HasCycle(DeclaredDependencies(graph))
    /\ \E i \in DOMAIN ret.trace : ret.trace[i].status = "error"
    /\ \E r \in DOMAIN graph.computation_relationships :
       \E w \in DOMAIN graph.computation_relationships :
          LET rels == graph.computation_relationships
          IN /\ rels[r].relation_type = "DEPENDS_ON"
             /\ rels[w].relation_type = "OUTPUT_TO"
             /\ rels[r].source_id \in DataIds
             /\ rels[w].target_id = rels[r].source_id
             /\ rels[w].property_name # rels[r].property_name

(***************************************************************************)
(* C12: when the declared dependencies contain a cycle, execute evaluates  *)
(* no computation node and leaves every data-node bag as it was.           *)
(***************************************************************************)
C12_CycleEvaluatesNothing ==
    (ret.op = "execute" /\ HasCycle(DeclaredDependencies(graph))) =>
        /\ \A i \in DOMAIN ret.trace : ret.trace[i].status = "skipped"
        /\ get_all_data_nodes(G) = ret.before

(***************************************************************************)
(* SpecChain: execute on the chain of two computations through one data    *)
(* node (node 3 computes q = p + 1, node 1 computes r = q + 1), on parts   *)
(* and reorderings of it, and with a second writer or a node writing the   *)
(* property it reads; the data node starts with or without a value of q.   *)
(***************************************************************************)
ChainRels ==
    {[source_id |-> 2, target_id |-> 3, relation_type |-> "DEPENDS_ON", property_name |-> "p"],
     [source_id |-> 3, target_id |-> 2, relation_type |-> "OUTPUT_TO", property_name |-> "q"],
     [source_id |-> 2, target_id |-> 1, relation_type |-> "DEPENDS_ON", property_name |-> "q"],
     [source_id |-> 1, target_id |-> 2, relation_type |-> "OUTPUT_TO", property_name |-> "r"],
     [source_id |-> 1, target_id |-> 2, relation_type |-> "OUTPUT_TO", property_name |-> "q"],
     [source_id |-> 3, target_id |-> 2, relation_type |-> "OUTPUT_TO", property_name |-> "p"]}

ChainGraphs ==
    [computation_nodes : {[n \in CompIds |-> [code |-> IF n = 1 THEN 4 ELSE 3, priority |-> 0]]},
     computation_relationships : SeqsUpTo(ChainRels, MaxChainRels)]

ChainData == {[n \in DataIds |-> [p |-> 1]], [n \in DataIds |-> [p |-> 1, q |-> 0]]}

InitChain ==
    /\ graph \in ChainGraphs
    /\ node_data_map \in ChainData
    /\ G = build_networkx_graph(graph, node_data_map)
    /\ snapshot = NoSnapshot
    /\ ret = [op |-> "init"]
    /\ steps = 0
    /\ built = NewComputationGraph
    /\ calls = NoCalls
    /\ other = build_networkx_graph(graph, node_data_map)

NextChain == Execute

SpecChain == InitChain /\ [][NextChain]_vars

(***************************************************************************)
(* C13: after execute returned True with every computation node evaluated  *)
(* without error, on a graph where every (node, property) has at most one  *)
(* writer, no node reads a property it writes, no node has two OUTPUT_TO   *)
(* relationships to one target and no node has two inputs of one name,     *)
(* the property named by every OUTPUT_TO relationship into a data node     *)
(* holds the value of the writer's expression on the final values of the   *)
(* writer's inputs.                                                        *)
(***************************************************************************)
RelsOfType(g, type) ==
    {i \in DOMAIN g.computation_relationships :
        g.computation_relationships[i].relation_type = type}

UniqueWriters(g) ==
    LET rels == g.computation_relationships
    IN \A a \in RelsOfType(g, "OUTPUT_TO") : \A b \in RelsOfType(g, "OUTPUT_TO") :
          (rels[a].target_id = rels[b].target_id
             /\ rels[a].property_name = rels[b].property_name)
          => rels[a].source_id = rels[b].source_id

OneOutputPerTarget(g) ==
    LET rels == g.computation_relationships
    IN \A a \in RelsOfType(g, "OUTPUT_TO") : \A b \in RelsOfType(g, "OUTPUT_TO") :
          (rels[a].source_id = rels[b].source_id /\ rels[a].target_id = rels[b].target_id)
          => a = b

DistinctInputNames(g) ==
    LET rels == g.computation_relationships
    IN \A a \in RelsOfType(g, "DEPENDS_ON") : \A b \in RelsOfType(g, "DEPENDS_ON") :
          (rels[a].target_id = rels[b].target_id
             /\ rels[a].property_name = rels[b].property_name)
          => a = b

EveryNodeEvaluated ==
    /\ Executed
    /\ \A n \in DOMAIN graph.computation_nodes :
          \E i \in DOMAIN ret.trace :
             ret.trace[i].node_id = n /\ ret.trace[i].status = "ok"
    /\ \A i \in DOMAIN ret.trace : ret.trace[i].status # "error"

WellFormedForValues(g) ==
    /\ UniqueWriters(g)
    /\ ~ReadsOwnOutput(g)
    /\ OneOutputPerTarget(g)
    /\ DistinctInputNames(g)

C13_OutputsHoldExpressionOfInputs ==
    (EveryNodeEvaluated /\ WellFormedForValues(graph)) =>
        \A w \in RelsOfType(graph, "OUTPUT_TO") :
            LET rel == graph.computation_relationships[w]
                value == eval(graph.computation_nodes[rel.source_id].code,
                              gather_variables(graph, G, rel.source_id))
            IN rel.target_id \notin DOMAIN graph.computation_nodes =>
                  /\ value.ok
                  /\ rel.property_name \in DOMAIN G.nodes[rel.target_id]
                  /\ G.nodes[rel.target_id][rel.property_name] = value.value

C13_Witness ==
    /\ EveryNodeEvaluated
    /\ WellFormedForValues(graph)
    /\ ~ret.rerun
    /\ node_data_map[2] = [p |-> 1, q |-> 0]
    /\ "q" \in DOMAIN G.nodes[2] /\ G.nodes[2]["q"] = 2
    /\ "r" \in DOMAIN G.nodes[2] /\ G.nodes[2]["r"] = 3

(***************************************************************************)
(* SpecOverrides: run_scenario calls with lists of overrides of the data   *)
(* node, and execute.                                                      *)
(***************************************************************************)
InitOverrides == InitWith(ScenarioGraphs)

NextOverrides == Execute \/ RunScenarioOnData

SpecOverrides == InitOverrides /\ [][NextOverrides]_vars

(***************************************************************************)
(* C14: a run_scenario call that returns gives as baseline what            *)
(* get_all_data_nodes() was before the call, and as scenario what          *)
(* get_all_data_nodes() is after one execute on the executor as it was     *)
(* before the call with, on every vertex named, the last override of       *)
(* every property set: overrides first, then the evaluation, and the       *)
(* restore only after the scenario was taken.                              *)
(***************************************************************************)
WithOverrides(W, overrides) ==
    [W EXCEPT !.nodes =
        [n \in DOMAIN W.nodes |->
            IF n \in DOMAIN overrides THEN BagUpdate(W.nodes[n], overrides[n])
            ELSE W.nodes[n]]]

ScenarioReturned == ret.op = "run_scenario" /\ ~ret.raised

C14_BaselineAndScenario ==
    ScenarioReturned =>
        /\ ret.result.baseline = ret.before
        /\ ret.result.scenario =
              get_all_data_nodes(
                  execute(graph,
                          WithOverrides(ret.executor,
                                        property_changes_to_overrides(ret.property_changes))).W)

C14_Witness ==
    /\ ScenarioReturned
    /\ Len(ret.property_changes) = 2
    /\ ret.property_changes[1][1] = ret.property_changes[2][1]
    /\ ret.property_changes[1][2] = "p"
    /\ ret.property_changes[2][2] = "p"
    /\ ret.property_changes[1][3] = 0
    /\ ret.property_changes[2][3] = 2
    /\ ret.result.baseline[2] = [p |-> 1, priority |-> 0]
    /\ ret.result.scenario[2] = [p |-> 2, q |-> 3, priority |-> 0]
    /\ get_all_data_nodes(G) = ret.before

(***************************************************************************)
(* C15: a computation node with a DEPENDS_ON relationship whose source     *)
(* does not hold the property named is still evaluated, with the variable  *)
(* bound to None: it is never skipped, an expression that does not use     *)
(* the variable gives its value, the expression that is the variable       *)
(* gives None without failing, and the bag of the source is the same       *)
(* after the node as before unless the node itself writes to the source.   *)
(***************************************************************************)
DependsOnRels ==
    {graph.computation_relationships[i] : i \in RelsOfType(graph, "DEPENDS_ON")}

OutputToRels ==
    {graph.computation_relationships[i] : i \in RelsOfType(graph, "OUTPUT_TO")}

MissingInputs(W, node_id) ==
    {r \in DependsOnRels :
        /\ r.target_id = node_id
        /\ r.property_name \notin DOMAIN W.nodes[r.source_id]}

AllMissing(W, node_id, p) ==
    /\ \E r \in MissingInputs(W, node_id) : r.property_name = p
    /\ \A r \in DependsOnRels :
          (r.target_id = node_id /\ r.property_name = p) => r \in MissingInputs(W, node_id)

C15_MissingInputBoundToNone ==
    ret.op = "execute" =>
        \A i \in DOMAIN ret.trace :
            LET t == ret.trace[i]
                n == t.node_id
                text == CodeText[graph.computation_nodes[n].code]
            IN (n \in DOMAIN graph.computation_nodes /\ MissingInputs(t.before, n) # {}) =>
                  /\ t.status # "skipped"
                  /\ text = "1" => (t.status = "ok" /\ t.result = 1)
                  /\ (text = "p" /\ AllMissing(t.before, n, "p")) =>
                        (t.status = "ok" /\ t.result = None)
                  /\ \A r \in MissingInputs(t.before, n) :
                        (\A w \in OutputToRels :
                            ~(w.source_id = n /\ w.target_id = r.source_id))
                        => t.after.nodes[r.source_id] = t.before.nodes[r.source_id]

C15_Witness ==
    /\ Executed
    /\ \E i \in DOMAIN ret.trace :
          LET t == ret.trace[i]
              n == t.node_id
          IN /\ n \in DOMAIN graph.computation_nodes
             /\ CodeText[graph.computation_nodes[n].code] = "p"
             /\ AllMissing(t.before, n, "p")
             /\ t.status = "ok"
             /\ t.result = None
             /\ \E w \in OutputToRels :
                   /\ w.source_id = n
                   /\ w.target_id \in DataIds
                   /\ w.property_name = "q"
                   /\ t.after.nodes[w.target_id] = [p |-> 1, q |-> None, is_computation |-> 0, priority |-> 0]

C17_AccessorsHideBookkeeping ==
    /\ \A n \in DOMAIN get_all_data_nodes(G) :
          /\ (DOMAIN get_all_data_nodes(G)[n]) \cap BookkeepingKeys = {}
          /\ n \notin DOMAIN graph.computation_nodes
    /\ \A n \in DOMAIN node_data_map :
          (DOMAIN get_node_data(G, n)) \cap BookkeepingKeys = {}

(***************************************************************************)
(* C18: after any sequence of update_node_property, execute and            *)
(* restore_data_nodes calls every computation vertex of the working graph  *)
(* carries the code, the priority and the is_computation flag it was       *)
(* built with.                                                             *)
(***************************************************************************)
C18_ComputationVerticesKeepBookkeeping ==
    \A n \in DOMAIN graph.computation_nodes :
        \A k \in {"code", "priority", "is_computation"} :
            /\ k \in DOMAIN G.nodes[n]
            /\ G.nodes[n][k] = build_networkx_graph(graph, node_data_map).nodes[n][k]

(***************************************************************************)
(* SpecBuild: a program that builds ComputationGraph values, every         *)
(* addition called on any of the values built so far.  built.receiver is   *)
(* the position of the value an addition was called on and built.produced  *)
(* the content the value returned had when it was returned.                *)
(***************************************************************************)
BuildNodes == [id : CompIds, code : {3}, priority : Priorities]

BuildRelationships ==
    {r \in [id : {1, 2}, source_id : {1, 2}, target_id : {1, 2},
            relation_type : {"DEPENDS_ON", "OUTPUT_TO"}, property_name : {"p"}] :
        r.source_id # r.target_id}

Built(i, r) ==
    [heap |-> r.heap,
     graphs |-> Append(built.graphs, r.graph),
     receiver |-> Append(built.receiver, i),
     produced |-> Append(built.produced, Deref(r.heap, r.graph))]

AddComputationNode ==
    /\ Len(built.graphs) < MaxGraphs
    /\ \E i \in DOMAIN built.graphs : \E node \in BuildNodes :
          built' = Built(i, add_computation_node(built.heap, built.graphs[i], node))
    /\ UNCHANGED <<graph, node_data_map, G, snapshot, ret, steps, calls, other>>

AddComputationRelationship ==
    /\ Len(built.graphs) < MaxGraphs
    /\ \E i \in DOMAIN built.graphs : \E relationship \in BuildRelationships :
          built' = Built(i, add_computation_relationship(built.heap, built.graphs[i], relationship))
    /\ UNCHANGED <<graph, node_data_map, G, snapshot, ret, steps, calls, other>>

InitBuild == InitWith({[computation_nodes |-> [n \in CompIds |-> [code |-> 3, priority |-> 0]],
                        computation_relationships |-> <<>>]})

NextBuild == AddComputationNode \/ AddComputationRelationship

SpecBuild == InitBuild /\ [][NextBuild]_vars

(***************************************************************************)
(* C19: after any sequence of add_computation_node and                     *)
(* add_computation_relationship calls every graph value has exactly the    *)
(* nodes, the relationships and the outgoing and incoming entries it had   *)
(* when it was produced, and the value an addition returns is not the      *)
(* receiver.                                                               *)
(***************************************************************************)
C19_AdditionsLeaveReceiver ==
    \A i \in DOMAIN built.graphs :
        /\ Deref(built.heap, built.graphs[i]) = built.produced[i]
        /\ built.receiver[i] # 0 => built.graphs[i] # built.graphs[built.receiver[i]]

C19_Witness ==
    \E i \in DOMAIN built.graphs : \E j \in DOMAIN built.graphs : \E k \in DOMAIN built.graphs :
        /\ built.receiver[j] = i
        /\ built.receiver[k] = i
        /\ j < k
        /\ built.graphs[j].outgoing = built.graphs[i].outgoing
        /\ built.produced[j].computation_nodes # built.produced[i].computation_nodes
        /\ built.produced[k].outgoing # built.produced[i].outgoing
        /\ built.produced[i].outgoing # EmptyBag
        /\ Deref(built.heap, built.graphs[i]) = built.produced[i]
        /\ Deref(built.heap, built.graphs[j]) = built.produced[j]

(***************************************************************************)
(* SpecFrame: every call on the executor and the simulator, on executors   *)
(* of three graphs.                                                        *)
(***************************************************************************)
FrameGraphs ==
    {g \in ScenarioGraphs :
        \/ g.computation_relationships = <<>>
        \/ /\ Len(g.computation_relationships) = 2
           /\ g.computation_relationships[1] =
                 [source_id |-> 2, target_id |-> 1,
                  relation_type |-> "DEPENDS_ON", property_name |-> "p"]
           /\ g.computation_relationships[2].relation_type = "OUTPUT_TO"
           /\ g.computation_relationships[2].source_id = 1}

InitFrame == InitWith(FrameGraphs)

NextFrame ==
    \/ Execute
    \/ UpdateNodeProperty
    \/ SnapshotDataNodes
    \/ RestoreDataNodes
    \/ RunScenario

SpecFrame == InitFrame /\ [][NextFrame]_vars

CallIds == {1, 2}

ReentrantOverrides ==
    {<<>>, <<<<2, "p", 2>>>>, <<<<2, "q", 2>>>>, <<<<2, "p", 0>>, <<2, "p", 2>>>>,
     <<<<1, "is_computation", 0>>>>}

IdleCall == [pc |-> "idle"]

CallPc(c) == IF calls.started THEN calls.call[c].pc ELSE "idle"

InProgress(c) == CallPc(c) \notin {"idle", "done"}

Lands(W) ==
    /\ G' = W
    /\ node_data_map' = node_data_map_after(node_data_map, W)
    /\ other' = other_after(other, W)

ScenarioSnapshot(c) ==
    /\ CallPc(c) = "idle"
    /\ \E property_changes \in ReentrantOverrides :
          LET begun == [pc |-> "apply", property_changes |-> property_changes,
                        snapshot |-> snapshot_data_nodes(G),
                        baseline |-> get_all_data_nodes(G),
                        raised |-> FALSE]
          IN calls' = IF calls.started
                      THEN [calls EXCEPT !.call[c] = begun,
                                         !.overlapped = \E d \in CallIds : InProgress(d)]
                      ELSE [started |-> TRUE, G0 |-> G, overlapped |-> FALSE,
                            call |-> [d \in CallIds |-> IF d = c THEN begun ELSE IdleCall]]
    /\ UNCHANGED <<graph, node_data_map, G, snapshot, ret, steps, built, other>>

ScenarioApply(c) ==
    /\ CallPc(c) = "apply"
    /\ Lands(apply_property_changes(G, calls.call[c].property_changes))
    /\ calls' = [calls EXCEPT !.call[c].pc = "execute"]
    /\ UNCHANGED <<graph, snapshot, ret, steps, built>>

ScenarioExecute(c) ==
    /\ CallPc(c) = "execute"
    /\ \E x \in {execute(graph, G)} :
          /\ Lands(x.W)
          /\ calls' = IF x.outcome = "raise"
                      THEN [calls EXCEPT !.call[c].pc = "restore", !.call[c].raised = TRUE]
                      ELSE [calls EXCEPT !.call[c].pc = "capture"]
    /\ UNCHANGED <<graph, snapshot, ret, steps, built>>

ScenarioCapture(c) ==
    /\ CallPc(c) = "capture"
    /\ calls' = [calls EXCEPT !.call[c] =
                    [pc |-> "restore", property_changes |-> @.property_changes,
                     snapshot |-> @.snapshot, baseline |-> @.baseline,
                     raised |-> FALSE, scenario |-> get_all_data_nodes(G)]]
    /\ UNCHANGED <<graph, node_data_map, G, snapshot, ret, steps, built, other>>

ScenarioRestore(c) ==
    /\ CallPc(c) = "restore"
    /\ Lands(restore_data_nodes(G, calls.call[c].snapshot))
    /\ calls' = [calls EXCEPT !.call[c].pc = "done"]
    /\ UNCHANGED <<graph, snapshot, ret, steps, built>>

InitReentrant == InitWith(FrameGraphs)

NextReentrant ==
    \E c \in CallIds :
        \/ ScenarioSnapshot(c)
        \/ ScenarioApply(c)
        \/ ScenarioExecute(c)
        \/ ScenarioCapture(c)
        \/ ScenarioRestore(c)

SpecReentrant == InitReentrant /\ [][NextReentrant]_vars

(***************************************************************************)
(* C21: when two run_scenario calls on one executor run one after the      *)
(* other, the data state after both is the state before both, and the      *)
(* baseline and the scenario of each are what the call gives on the        *)
(* executor as it was before both, so that neither reflects the overrides  *)
(* of the other.  (When their steps interleave there is an interleaving    *)
(* in which this fails: C21_InterleavedRunLeaks is reachable.)             *)
(***************************************************************************)
BothDone == calls.started /\ \A c \in CallIds : calls.call[c].pc = "done"

Alone(c) == run_scenario(graph, calls.G0, calls.call[c].property_changes)

C21_SequentialRunsAreIsolated ==
    (BothDone /\ ~calls.overlapped) =>
        /\ get_all_data_nodes(G) = get_all_data_nodes(calls.G0)
        /\ \A c \in CallIds :
              ~calls.call[c].raised =>
                  /\ calls.call[c].baseline = Alone(c).result.baseline
                  /\ calls.call[c].scenario = Alone(c).result.scenario

DataOnly(c) == \A i \in DOMAIN calls.call[c].property_changes :
                  calls.call[c].property_changes[i][1] \in DataIds

C21_InterleavedRunLeaks ==
    /\ BothDone
    /\ calls.overlapped
    /\ \A c \in CallIds : DataOnly(c) /\ ~calls.call[c].raised
    /\ get_all_data_nodes(G) # get_all_data_nodes(calls.G0)
    /\ \E c \in CallIds : calls.call[c].baseline # Alone(c).result.baseline

QueryGraphs ==
    UNION {{g \in [computation_nodes : [S -> [code : {1}, priority : {0}]],
                   computation_relationships : SeqsUpTo(RelAlphabet, MaxQueryRels)] :
               \A i \in DOMAIN g.computation_relationships :
                  LET r == g.computation_relationships[i]
                  IN /\ (r.relation_type = "DEPENDS_ON" => r.target_id \in S)
                     /\ (r.relation_type = "OUTPUT_TO" => r.source_id \in S)}
           : S \in SUBSET CompIds}

Providers ==
    {db \in [NodeIds -> [found : BOOLEAN, props : {[p |-> 1]}, merged : BOOLEAN]] :
        \A n \in NodeIds : db[n].merged => db[n].found}

LoadGraphDataFromNeo4j ==
    /\ \E db \in Providers :
          \E r \in {load_graph_data_from_neo4j(db, graph)} :
             ret' = [op |-> "load_graph_data_from_neo4j", db |-> db,
                     outcome |-> r.outcome, exc |-> r.exc, node_data_map |-> r.node_data_map]
    /\ UNCHANGED <<graph, node_data_map, G, snapshot, steps, built, calls, other>>

InitQueries == InitWith(QueryGraphs)

GetOutputPropertiesByDataNode ==
    /\ ret' = [op |-> "get_output_properties_by_data_node",
               value |-> get_output_properties_by_data_node(graph)]
    /\ UNCHANGED <<graph, node_data_map, G, snapshot, steps, built, calls, other>>

NextQueries == LoadGraphDataFromNeo4j \/ GetOutputPropertiesByDataNode

SpecQueries == InitQueries /\ [][NextQueries]_vars

(***************************************************************************)
(* C23: load_graph_data_from_neo4j either returns a map whose keys are     *)
(* exactly the ids of graph.get_data_node_ids(), each with the properties  *)
(* the provider found, or raises ValueError; it raises whenever the        *)
(* provider finds no node for one of the ids, and it returns only when     *)
(* every id was found.                                                     *)
(***************************************************************************)
Loaded == ret.op = "load_graph_data_from_neo4j"

Unresolved == {n \in get_data_node_ids(graph) : ~ret.db[n].found}

C23_LoadIsAllOrNothing ==
    Loaded =>
        /\ ret.outcome \in {"return", "raise"}
        /\ ret.outcome = "return" =>
              /\ DOMAIN ret.node_data_map = get_data_node_ids(graph)
              /\ \A n \in DOMAIN ret.node_data_map : ret.node_data_map[n] = ret.db[n].props
              /\ Unresolved = {}
        /\ ret.outcome = "raise" => ret.exc = "ValueError"
        /\ Unresolved # {} => ret.outcome = "raise"

C23_Witness ==
    /\ Loaded
    /\ Cardinality(get_data_node_ids(graph)) = 2
    /\ Cardinality(Unresolved) = 1
    /\ ret.outcome = "raise"
    /\ ret.exc = "ValueError"
    /\ \E n \in get_data_node_ids(graph) : ret.db[n].found /\ ret.db[n].merged

(***************************************************************************)
(* C24: affected_node_ids of a result is strictly ascending (sorted, no    *)
(* id twice) and its elements are exactly the node ids of the entries of   *)
(* the diff of that result.                                                *)
(***************************************************************************)
C24_AffectedNodeIdsSortedDistinct ==
    ScenarioReturned =>
        LET ids == ret.result.affected_node_ids
            diff == ret.result.diff
        IN /\ \A i \in DOMAIN ids : \A j \in DOMAIN ids : i < j => ids[i] < ids[j]
           /\ {ids[i] : i \in DOMAIN ids} = {diff[i].node_id : i \in DOMAIN diff}

C24_Witness ==
    /\ ScenarioReturned
    /\ Len(ret.result.affected_node_ids) >= 2
    /\ Len(ret.result.diff) > Len(ret.result.affected_node_ids)
    /\ ret.result.affected_node_ids[1] < ret.result.affected_node_ids[2]

(***************************************************************************)
(* C25: outputs_per_node of a result has one entry for every id that is    *)
(* the target of an OUTPUT_TO relationship and not a computation node of   *)
(* the graph; the entry holds exactly the property names of the OUTPUT_TO  *)
(* relationships to that id that the scenario state holds for it, each     *)
(* with its scenario value, and so no property that no relationship        *)
(* outputs.                                                                *)
(***************************************************************************)
OutputNames(n) == {r.property_name : r \in {r \in OutputToRels : r.target_id = n}}

C25_OutputsPerNode ==
    ScenarioReturned =>
        LET out == ret.result.outputs_per_node
            scenario == ret.result.scenario
        IN /\ DOMAIN out = {r.target_id : r \in OutputToRels} \ DOMAIN graph.computation_nodes
           /\ \A n \in DOMAIN out :
                 /\ DOMAIN out[n] = OutputNames(n) \cap DOMAIN BagOf(scenario, n)
                 /\ \A k \in DOMAIN out[n] : out[n][k] = scenario[n][k]

C25_Witness ==
    /\ ScenarioReturned
    /\ \E n \in DOMAIN ret.result.outputs_per_node :
          /\ ret.result.outputs_per_node[n] = [q |-> 2]
          /\ "p" \in DOMAIN ret.result.scenario[n]
          /\ "q" \notin DOMAIN ret.result.baseline[n]

(***************************************************************************)
(* SpecBuildQueries: get_data_node_ids called on any of the graph values   *)
(* a program has built.                                                    *)
(***************************************************************************)
GetDataNodeIds ==
    /\ \E i \in DOMAIN built.graphs :
          ret' = [op |-> "get_data_node_ids", i |-> i,
                  value |-> get_data_node_ids(Deref(built.heap, built.graphs[i]))]
    /\ UNCHANGED <<graph, node_data_map, G, snapshot, steps, built, calls, other>>

NextBuildQueries == AddComputationNode \/ AddComputationRelationship \/ GetDataNodeIds

SpecBuildQueries == InitBuild /\ [][NextBuildQueries]_vars

(***************************************************************************)
(* C26: for every graph built by additions, an id is in                    *)
(* get_data_node_ids() exactly when it is the source of a DEPENDS_ON       *)
(* relationship or the target of an OUTPUT_TO relationship of the graph    *)
(* and not the id of one of its computation nodes; the set is empty for a  *)
(* graph without relationships.                                            *)
(***************************************************************************)
C26_DataNodeIds ==
    ret.op = "get_data_node_ids" =>
        LET g == built.produced[ret.i]
            rels == g.computation_relationships
        IN /\ \A n \in {1, 2, 3} :
                 n \in ret.value <=>
                    /\ n \notin DOMAIN g.computation_nodes
                    /\ \E k \in DOMAIN rels :
                          \/ rels[k].relation_type = "DEPENDS_ON" /\ rels[k].source_id = n
                          \/ rels[k].relation_type = "OUTPUT_TO" /\ rels[k].target_id = n
           /\ ret.value \subseteq {1, 2, 3}
           /\ DOMAIN rels = {} => ret.value = {}

C26_Witness ==
    /\ ret.op = "get_data_node_ids"
    /\ ret.value = {2}
    /\ LET g == built.produced[ret.i]
       IN /\ 1 \in DOMAIN g.computation_nodes
          /\ \E k \in DOMAIN g.computation_relationships :
                /\ g.computation_relationships[k].relation_type = "DEPENDS_ON"
                /\ g.computation_relationships[k].source_id = 1
          /\ \E k \in DOMAIN g.computation_relationships :
                /\ g.computation_relationships[k].relation_type = "OUTPUT_TO"
                /\ g.computation_relationships[k].target_id = 2
    /\ \E j \in DOMAIN built.graphs :
          /\ built.produced[j].computation_relationships = EmptyBag
          /\ get_data_node_ids(built.produced[j]) = {}

(***************************************************************************)
(* C27: get_output_properties_by_data_node() has an entry for exactly the  *)
(* ids that are the target of an OUTPUT_TO relationship and not a          *)
(* computation node, and the entry lists the property names of the         *)
(* OUTPUT_TO relationships to that id, one per relationship in the order   *)
(* of the relationships: a DEPENDS_ON relationship adds nothing, a         *)
(* relationship to a computation node adds nothing, and a data node that   *)
(* is only read has no entry.                                              *)
(***************************************************************************)
OutputsTo(n) ==
    {i \in DOMAIN graph.computation_relationships :
        /\ graph.computation_relationships[i].relation_type = "OUTPUT_TO"
        /\ graph.computation_relationships[i].target_id = n}

C27_OutputPropertiesByDataNode ==
    ret.op = "get_output_properties_by_data_node" =>
        /\ DOMAIN ret.value =
              {n \in NodeIds : OutputsTo(n) # {}} \ DOMAIN graph.computation_nodes
        /\ \A n \in DOMAIN ret.value :
              /\ Len(ret.value[n]) = Cardinality(OutputsTo(n))
              /\ \A i \in OutputsTo(n) :
                    ret.value[n][Cardinality({j \in OutputsTo(n) : j <= i})]
                       = graph.computation_relationships[i].property_name

C27_Witness ==
    /\ ret.op = "get_output_properties_by_data_node"
    /\ DOMAIN ret.value = {3}
    /\ ret.value[3] = <<"q">>
    /\ 2 \in get_data_node_ids(graph)
    /\ \E i \in DOMAIN graph.computation_relationships :
          /\ graph.computation_relationships[i].relation_type = "DEPENDS_ON"
          /\ graph.computation_relationships[i].source_id = 2
          /\ graph.computation_relationships[i].property_name = "p"

(***************************************************************************)
(* SpecPair: two executors constructed from the same graph and             *)
(* node_data_map, update_node_property called on either, and               *)
(* _execute_node called for the same node on both.                         *)
(***************************************************************************)
UpdateOtherNodeProperty ==
    /\ steps < MaxSteps
    /\ \E c \in PropertyChanges :
          /\ other' = update_node_property(other, c[1], c[2], c[3])
          /\ ret' = [op |-> "update_node_property", node_id |-> c[1]]
    /\ steps' = steps + 1
    /\ UNCHANGED <<graph, node_data_map, G, snapshot, built, calls>>

ExecuteNodeOnBoth ==
    /\ ValuesBelow(G, MaxValue)
    /\ ValuesBelow(other, MaxValue)
    /\ \E node_id \in DOMAIN graph.computation_nodes :
          \E here \in {execute_node(graph, G, node_id)} :
          \E there \in {execute_node(graph, other, node_id)} :
             /\ G' = here.W
             /\ other' = there.W
             /\ ret' = [op |-> "execute_node", node_id |-> node_id,
                        before |-> G, other_before |-> other,
                        status |-> here.status, result |-> here.result,
                        other_status |-> there.status, other_result |-> there.result]
    /\ UNCHANGED <<graph, node_data_map, snapshot, steps, built, calls>>

InitPair == InitWith(FrameGraphs)

NextPair == UpdateNodeProperty \/ UpdateOtherNodeProperty \/ ExecuteNodeOnBoth

SpecPair == InitPair /\ [][NextPair]_vars

(***************************************************************************)
(* C28: when two working states hold the same value, or both none, for     *)
(* every (source, property) pair named by the DEPENDS_ON relationships of  *)
(* a computation node, _execute_node of the node gives the same result or  *)
(* fails in both, whatever else the two states hold.                       *)
(***************************************************************************)
AgreeOnInputs(W1, W2, node_id) ==
    \A r \in DependsOnRels :
        r.target_id = node_id =>
            /\ (r.property_name \in DOMAIN W1.nodes[r.source_id])
                  <=> (r.property_name \in DOMAIN W2.nodes[r.source_id])
            /\ BagGet(W1.nodes[r.source_id], r.property_name)
                  = BagGet(W2.nodes[r.source_id], r.property_name)

C28_ResultDependsOnInputsOnly ==
    (ret.op = "execute_node" /\ AgreeOnInputs(ret.before, ret.other_before, ret.node_id)) =>
        /\ (ret.status = "ok") <=> (ret.other_status = "ok")
        /\ ret.result = ret.other_result

(***************************************************************************)
(* C29: for a graph whose declared dependencies are acyclic, execute       *)
(* returns True with an order that lists every vertex of the working       *)
(* graph exactly once, and every computation node of the graph is          *)
(* evaluated exactly once in the call: it has one entry in the trace, and  *)
(* that entry is not one passed over.                                      *)
(***************************************************************************)
C29_EveryNodeEvaluatedOnce ==
    (ret.op = "execute" /\ ~HasCycle(DeclaredDependencies(graph))) =>
        /\ ret.outcome = "True"
        /\ Len(ret.order) = Cardinality(DOMAIN G.nodes)
        /\ {ret.order[i] : i \in DOMAIN ret.order} = DOMAIN G.nodes
        /\ \A n \in DOMAIN graph.computation_nodes :
              /\ Cardinality({i \in DOMAIN ret.trace : ret.trace[i].node_id = n}) = 1
              /\ \A i \in DOMAIN ret.trace :
                    ret.trace[i].node_id = n => ret.trace[i].status # "skipped"

(***************************************************************************)
(* C30: for a computation node n that reads and writes the same property   *)
(* P of a data node D, no edge from n to n is in the dependency graph,     *)
(* execute returns True when the declared dependencies are acyclic, and    *)
(* in one execute call n is evaluated once, on the value D.P had before    *)
(* n ran, and D.P holds the result after n ran.                            *)
(***************************************************************************)
ReadWriteSame ==
    {x \in (DOMAIN graph.computation_nodes) \X NodeIds \X RelProps :
        /\ x[2] \notin DOMAIN graph.computation_nodes
        /\ \E r \in DependsOnRels :
              r.source_id = x[2] /\ r.target_id = x[1] /\ r.property_name = x[3]
        /\ \E w \in OutputToRels :
              w.source_id = x[1] /\ w.target_id = x[2] /\ w.property_name = x[3]}

OnlySource(n, D, P) ==
    \A r \in DependsOnRels : (r.target_id = n /\ r.property_name = P) => r.source_id = D

C30_ReadWriteSameProperty ==
    ret.op = "execute" =>
        \A x \in ReadWriteSame :
            LET n == x[1]
                D == x[2]
                P == x[3]
                entries == {i \in DOMAIN ret.trace : ret.trace[i].node_id = n}
            IN /\ (<<n, n>> \in get_dependency_graph(graph, G).edges)
                     => <<n, n>> \in DependsOnPairs(graph)
               /\ ~HasCycle(DeclaredDependencies(graph)) => ret.outcome = "True"
               /\ ret.outcome = "True" =>
                     /\ Cardinality(entries) = 1
                     /\ \A i \in entries :
                           LET t == ret.trace[i]
                           IN t.status = "ok" =>
                                 /\ P \in DOMAIN t.after.nodes[D]
                                 /\ t.after.nodes[D][P] = t.result
                                 /\ (CodeText[graph.computation_nodes[n].code] = "p + 1"
                                        /\ P = "p" /\ OnlySource(n, D, P))
                                       => t.result = t.before.nodes[D][P] + 1

(***************************************************************************)
(* SpecOutputs: run_scenario with one override of the data node, and       *)
(* execute, on the chain graphs of up to MaxOutputRels relationships, so   *)
(* that an overridden property can have one writer, two writers, or a      *)
(* writer with a second OUTPUT_TO relationship to the same data node.      *)
(***************************************************************************)
MaxOutputRels == 3

OutputGraphs == {g \in ChainGraphs : Len(g.computation_relationships) <= MaxOutputRels}

InitOutputs ==
    /\ graph \in OutputGraphs
    /\ node_data_map \in ChainData
    /\ G = build_networkx_graph(graph, node_data_map)
    /\ snapshot = NoSnapshot
    /\ ret = [op |-> "init"]
    /\ steps = 0
    /\ built = NewComputationGraph
    /\ calls = NoCalls
    /\ other = build_networkx_graph(graph, node_data_map)

RunScenarioOnOutput == \E c \in DataOverrides : RunScenarioWith(<<c>>)

NextOutputs == Execute \/ RunScenarioOnOutput

SpecOutputs == InitOutputs /\ [][NextOutputs]_vars

(***************************************************************************)
(* C31: in the scenario of a run_scenario call that returns, an overridden *)
(* property of a data node that some computation node writes through an    *)
(* OUTPUT_TO relationship holds the result of the last writer evaluated    *)
(* successfully, and holds the overridden value when no writer was         *)
(* evaluated successfully.                                                 *)
(***************************************************************************)
WritersOf(D, P) ==
    {w.source_id : w \in {r \in OutputToRels : r.target_id = D /\ r.property_name = P}}
        \cap DOMAIN graph.computation_nodes

ScenarioRun ==
    execute(graph, WithOverrides(ret.executor,
                                 property_changes_to_overrides(ret.property_changes)))

Last(S) == CHOOSE i \in S : \A j \in S : j <= i

C31_OverrideOfOutputIsRecomputed ==
    ScenarioReturned =>
        LET overrides == property_changes_to_overrides(ret.property_changes)
            trace == ScenarioRun.trace
        IN \A D \in (DOMAIN overrides) \cap DataIds : \A P \in DOMAIN overrides[D] :
              LET evaluated == {i \in DOMAIN trace :
                                   trace[i].node_id \in WritersOf(D, P) /\ trace[i].status = "ok"}
              IN WritersOf(D, P) # {} =>
                    /\ P \in DOMAIN ret.result.scenario[D]
                    /\ ret.result.scenario[D][P] =
                          IF evaluated # {} THEN trace[Last(evaluated)].result
                          ELSE overrides[D][P]

(***************************************************************************)
(* SpecInputs: execute and update_node_property of p on the two sources,   *)
(* on graphs where node 1 reads p from the data node, from computation     *)
(* node 3, or from both in either order.                                   *)
(***************************************************************************)
InputRels ==
    {[source_id |-> 2, target_id |-> 1, relation_type |-> "DEPENDS_ON", property_name |-> "p"],
     [source_id |-> 3, target_id |-> 1, relation_type |-> "DEPENDS_ON", property_name |-> "p"],
     [source_id |-> 1, target_id |-> 2, relation_type |-> "OUTPUT_TO", property_name |-> "q"]}

InputGraphs ==
    [computation_nodes : [CompIds -> [code : Codes, priority : {0}]],
     computation_relationships : SeqsUpTo(InputRels, MaxRels)]

SourceUpdates == {2, 3} \X {"p"} \X {None, 0, 2}

UpdateSourceProperty ==
    /\ steps < MaxSteps
    /\ \E c \in SourceUpdates :
          /\ G' = update_node_property(G, c[1], c[2], c[3])
          /\ ret' = [op |-> "update_node_property", node_id |-> c[1]]
    /\ steps' = steps + 1
    /\ node_data_map' = node_data_map_after(node_data_map, G')
    /\ other' = other_after(other, G')
    /\ UNCHANGED <<graph, snapshot, built, calls>>

InitInputs == InitWith(InputGraphs)

NextInputs == Execute \/ UpdateSourceProperty

SpecInputs == InitInputs /\ [][NextInputs]_vars

(***************************************************************************)
(* C32: when a computation node has DEPENDS_ON relationships naming one    *)
(* property on two different sources, its expression is evaluated on the   *)
(* value that the source of the last of them in the relationship order     *)
(* holds (None when it holds none), whatever the other source holds:       *)
(* "p" gives that value, "p + 1" gives that value plus one and fails when  *)
(* that value is None.                                                     *)
(***************************************************************************)
TwoSources(n, P) ==
    \E a \in DependsOnRels : \E b \in DependsOnRels :
        /\ a.target_id = n /\ b.target_id = n
        /\ a.property_name = P /\ b.property_name = P
        /\ a.source_id # b.source_id

LastSource(n, P) ==
    LET rels == graph.computation_relationships
        reads == {i \in RelsOfType(graph, "DEPENDS_ON") :
                     rels[i].target_id = n /\ rels[i].property_name = P}
    IN rels[Last(reads)].source_id

C32_LastRelationshipSuppliesVariable ==
    ret.op = "execute" =>
        \A i \in DOMAIN ret.trace :
            LET t == ret.trace[i]
                n == t.node_id
                text == CodeText[graph.computation_nodes[n].code]
                seen == BagGet(t.before.nodes[LastSource(n, "p")], "p")
            IN (n \in DOMAIN graph.computation_nodes /\ TwoSources(n, "p")) =>
                  /\ text = "p" => (t.status = "ok" /\ t.result = seen)
                  /\ text = "p + 1" =>
                        IF seen = None THEN t.status = "error"
                        ELSE t.status = "ok" /\ t.result = seen + 1

C32_Witness ==
    /\ ret.op = "execute"
    /\ graph.computation_relationships = 
          <<[source_id |-> 3, target_id |-> 1, relation_type |-> "DEPENDS_ON", property_name |-> "p"],
            [source_id |-> 2, target_id |-> 1, relation_type |-> "DEPENDS_ON", property_name |-> "p"]>>
    /\ CodeText[graph.computation_nodes[1].code] = "p + 1"
    /\ \E i \in DOMAIN ret.trace :
          /\ ret.trace[i].node_id = 1
          /\ ret.trace[i].before.nodes[3] = [name |-> 3, code |-> graph.computation_nodes[3].code,
                                             engine |-> 1, is_computation |-> 1, priority |-> 0,
                                             p |-> 2]
          /\ ret.trace[i].before.nodes[2] = [p |-> 1, is_computation |-> 0, priority |-> 0]
          /\ ret.trace[i].status = "ok"
          /\ ret.trace[i].result = 2

(***************************************************************************)
(* ComputationGraph.get_outgoing_relationships and                         *)
(* get_incoming_relationships: the stored relationships of the ids the     *)
(* index holds for the node, in the order of the index.                    *)
(***************************************************************************)
RelationshipsOf(d, rel_ids) ==
    LET kept == SelectSeq(rel_ids, LAMBDA rid : rid \in DOMAIN d.computation_relationships)
    IN [k \in DOMAIN kept |-> d.computation_relationships[kept[k]]]

get_outgoing_relationships(d, node_id) ==
    RelationshipsOf(d, IF node_id \in DOMAIN d.outgoing THEN d.outgoing[node_id] ELSE <<>>)

get_incoming_relationships(d, node_id) ==
    RelationshipsOf(d, IF node_id \in DOMAIN d.incoming THEN d.incoming[node_id] ELSE <<>>)

(***************************************************************************)
(* SpecBuildIndex: the additions of SpecBuild, and the two index queries   *)
(* on any node of any graph value built so far.                            *)
(***************************************************************************)
GetRelationships ==
    /\ \E i \in DOMAIN built.graphs : \E node_id \in NodeIds :
          ret' = [op |-> "get_relationships", i |-> i, node_id |-> node_id,
                  outgoing |-> get_outgoing_relationships(Deref(built.heap, built.graphs[i]),
                                                          node_id),
                  incoming |-> get_incoming_relationships(Deref(built.heap, built.graphs[i]),
                                                          node_id)]
    /\ UNCHANGED <<graph, node_data_map, G, snapshot, steps, built, calls, other>>

NextBuildIndex == AddComputationNode \/ AddComputationRelationship \/ GetRelationships

SpecBuildIndex == InitBuild /\ [][NextBuildIndex]_vars

(***************************************************************************)
(* C33: on every graph built by additions, every relationship that         *)
(* get_outgoing_relationships(n) returns has source_id n, every one that   *)
(* get_incoming_relationships(n) returns has target_id n, and every stored *)
(* relationship with source_id n is among the former and every one with    *)
(* target_id n among the latter.                                           *)
(***************************************************************************)
Stored(i) ==
    LET rels == Deref(built.heap, built.graphs[i]).computation_relationships
    IN {rels[rid] : rid \in DOMAIN rels}

Returned(relationships) == {relationships[k] : k \in DOMAIN relationships}

C33_IndexesAgreeWithRelationships ==
    ret.op = "get_relationships" =>
        /\ \A r \in Returned(ret.outgoing) : r.source_id = ret.node_id
        /\ \A r \in Returned(ret.incoming) : r.target_id = ret.node_id
        /\ \A r \in Stored(ret.i) :
              /\ r.source_id = ret.node_id => r \in Returned(ret.outgoing)
              /\ r.target_id = ret.node_id => r \in Returned(ret.incoming)

(***************************************************************************)
(* Neo4jDataProvider.merge_data_node in the loop of                        *)
(* load_data_nodes_from_neo4j: store is the DataNodes of the database by   *)
(* uuid.  For every uuid that get_data_node_by_uuid finds, MERGE ... SET   *)
(* n = $props leaves a DataNode with the properties found and the uuid;    *)
(* where merge_data_node gives None nothing is written.  The writes of     *)
(* different uuids do not touch each other, so store_after_load is the     *)
(* store at the end of the loop, which is also the store when              *)
(* load_graph_data_from_neo4j raises after it.                             *)
(***************************************************************************)
merge_data_node(store, uuid, properties) ==
    [u \in (DOMAIN store) \cup {uuid} |->
        IF u = uuid THEN BagSet(properties, "uuid", uuid) ELSE store[u]]

store_after_load(db, store, uuids) ==
    LET written == {u \in uuids : u \in DOMAIN db /\ db[u].found /\ db[u].merged}
    IN [u \in (DOMAIN store) \cup written |->
           IF u \in written THEN merge_data_node(store, u, db[u].props)[u] ELSE store[u]]

(***************************************************************************)
(* SpecStore: load_graph_data_from_neo4j on a database that holds no       *)
(* DataNode yet or a DataNode for every id.                                *)
(***************************************************************************)
Stores == {[u \in S |-> [p |-> 1, uuid |-> u]] : S \in {{}, NodeIds}}

LoadIntoStore ==
    /\ \E db \in Providers : \E store \in Stores :
          \E r \in {load_graph_data_from_neo4j(db, graph)} :
             ret' = [op |-> "load_graph_data_from_neo4j", db |-> db,
                     outcome |-> r.outcome, exc |-> r.exc, node_data_map |-> r.node_data_map,
                     store_before |-> store,
                     store_after |-> store_after_load(db, store, get_data_node_ids(graph))]
    /\ UNCHANGED <<graph, node_data_map, G, snapshot, steps, built, calls, other>>

NextStore == LoadIntoStore

SpecStore == InitQueries /\ [][NextStore]_vars

(***************************************************************************)
(* C34: a load_graph_data_from_neo4j call that raises because the provider *)
(* finds no node for one of the ids leaves the DataNodes of the database   *)
(* as they were before the call.                                           *)
(***************************************************************************)
C34_FailedLoadLeavesStore ==
    (Loaded /\ ret.outcome = "raise" /\ Unresolved # {}) =>
        ret.store_after = ret.store_before

(***************************************************************************)
(* C35: an update_node_property call naming an id that is not a vertex of  *)
(* the working graph leaves the working graph as it was, no call ever      *)
(* adds a vertex, and a run_scenario call whose overrides all name such    *)
(* ids raises or returns as the call without overrides does, with the same *)
(* baseline, scenario and diff, no entry for the ids in the scenario or    *)
(* the diff, and the overrides listed in the result.                       *)
(***************************************************************************)
NotInGraph(W, property_changes) ==
    /\ property_changes # <<>>
    /\ \A i \in DOMAIN property_changes : property_changes[i][1] \notin DOMAIN W.nodes

C35_UnknownNodeIsIgnored ==
    /\ [](/\ DOMAIN G.nodes = DOMAIN build_networkx_graph(graph, node_data_map).nodes
          /\
            (ret.op = "run_scenario" /\ NotInGraph(ret.executor, ret.property_changes)) =>
                LET plain == run_scenario(graph, ret.executor, <<>>)
                IN /\ ret.raised = plain.raised
                   /\ ~ret.raised =>
                         /\ ret.result.baseline = plain.result.baseline
                         /\ ret.result.scenario = plain.result.scenario
                         /\ ret.result.diff = plain.result.diff
                         /\ \A i \in DOMAIN ret.property_changes :
                               LET c == ret.property_changes[i]
                               IN /\ c[1] \notin DOMAIN ret.result.scenario
                                  /\ \A k \in DOMAIN ret.result.diff : ret.result.diff[k].node_id # c[1]
                                  /\ c[1] \in DOMAIN ret.result.overrides
                                  /\ c[2] \in DOMAIN ret.result.overrides[c[1]]
                         /\ ret.result.overrides[ret.property_changes[Len(ret.property_changes)][1]]
                                                [ret.property_changes[Len(ret.property_changes)][2]]
                               = ret.property_changes[Len(ret.property_changes)][3])
    /\ [][
        (ret'.op = "update_node_property" /\ steps' = steps + 1 /\ ret'.node_id \notin DOMAIN G.nodes)
            => G' = G
       ]_vars

C35_Witness ==
    /\ ScenarioReturned
    /\ ret.property_changes = <<<<4, "p", 2>>>>
    /\ ret.result.overrides = (4 :> [p |-> 2])
    /\ ret.result.diff # <<>>
    /\ DOMAIN ret.result.scenario = {2}
    /\ DOMAIN G.nodes = {1, 2, 3}

====
